---- MODULE Spec2Model ----
(***************************************************************************)
(* Model of package hamming (larytet-go/hamming): the multi-index Hamming  *)
(* distance index of hamming.go.                                           *)
(*                                                                         *)
(* A uint64 limb is a sequence of 64 bits, most significant bit first      *)
(* (TLC integers are 32 bits wide, so a limb is never an integer).  A      *)
(* FuzzyHash is a sequence of limbs, limb 1 of the model being fh[0] of    *)
(* the code.  The caller's FuzzyHash slices live in a heap, mem: a slice   *)
(* passed to Add is stored by reference in h.hashes and, through toKey,    *)
(* as the key of h.hashesLookup, so that a later in-place change of the    *)
(* slice is seen through every reference to it.                            *)
(***************************************************************************)
EXTENDS Integers, Sequences, FiniteSets, TLC

VARIABLES
    mem,      \* heap: vector object -> its limbs (FuzzyHash contents)
    H,        \* sequence of H instances; H[1] is the instance made by New
    ret,      \* the last call: operation, instance, arguments, result
    added,    \* per instance: the key images added and not removed since
    current,  \* the shared handle (currentH of the package documentation)
    writer,   \* the writer of the documented pattern: pc, private instance, batch left
    readers,  \* per reader: pc, the dereferenced handle, the query, the results
    statistics \* the global counters Distance and PendingDistance of the
              \* readers' queries, and the number of queries started

vars == <<mem, H, ret, added, current, writer, readers, statistics>>

----------------------------------------------------------------------------
(* uint64 arithmetic on bit sequences *)

\* const _W uint64 = 64
_W == 64

Zero64 == [i \in 1.._W |-> 0]

\* x >> s of Go on uint64: a shift count of 64 or more gives 0
ShiftRight(x, s) == [i \in 1.._W |-> IF i > s THEN x[i - s] ELSE 0]

\* x << s of Go on uint64: a shift count of 64 or more gives 0
ShiftLeft(x, s) == [i \in 1.._W |-> IF i + s <= _W THEN x[i + s] ELSE 0]

BitOr(x, y) == [i \in 1.._W |-> IF x[i] = 1 \/ y[i] = 1 THEN 1 ELSE 0]

BitAnd(x, y) == [i \in 1.._W |-> IF x[i] = 1 /\ y[i] = 1 THEN 1 ELSE 0]

BitXor(x, y) == [i \in 1.._W |-> IF x[i] # y[i] THEN 1 ELSE 0]

RECURSIVE SumBits(_, _)
SumBits(x, n) == IF n = 0 THEN 0 ELSE x[n] + SumBits(x, n - 1)

\* bits.OnesCount64
OnesCount64(x) == SumBits(x, _W)

\* the value of bits lo..hi (bit 0 the least significant) of a limb
RECURSIVE BitsValue(_, _, _)
BitsValue(x, lo, hi) ==
    IF hi < lo THEN 0 ELSE x[_W - lo] + 2 * BitsValue(x, lo + 1, hi)

\* uint16(x): the low 16 bits, as a map key
uint16(x) == BitsValue(x, 0, 15)

\* a uint64 literal written as four 16-bit words, most significant first
Word16(n) == [i \in 1..16 |-> (n \div 2^(16 - i)) % 2]
U64(a, b, c, d) == Word16(a) \o Word16(b) \o Word16(c) \o Word16(d)

\* (uint64(1) << uint64(blockSize)) - 1: 1<<64 is 0 and 0-1 wraps to all
\* ones; uint64 of a negative blockSize is a shift count of 2^63 or more
blockMaskOf(blockSize) ==
    [i \in 1.._W |->
        IF blockSize < 0 \/ blockSize >= _W \/ i > _W - blockSize THEN 1 ELSE 0]

----------------------------------------------------------------------------
(* FuzzyHash *)

\* fh.toKey(): the byte image of the limbs, least significant byte of each
\* limb first (the slice memory reinterpreted as a string)
toKey(fh) ==
    [k \in 1..(8 * Len(fh)) |->
        LET limb == fh[((k - 1) \div 8) + 1]
            j == (k - 1) % 8
        IN  BitsValue(limb, 8 * j, 8 * j + 7)]

IsEqual(fh, other) ==
    /\ Len(fh) = Len(other)
    /\ \A i \in 1..Len(fh) : fh[i] = other[i]

\* an and that masks the first limb
andOfFirstLimb(fh, mask) == BitAnd(fh[1], mask)

\* fh.and(mask): the last limb masked
and(fh, mask) == BitAnd(fh[Len(fh)], mask)

\* rsh that shifts every limb on its own and carries no bits from fh[i-1]
rshWithoutCarry(fh, s) ==
    IF s = 0 \/ Len(fh) = 0 THEN fh
    ELSE [i \in 1..Len(fh) |-> ShiftRight(fh[i], s % _W)]

\* fh.rsh(s), the value of the slice after the in-place shift
rsh(fh, s) ==
    IF s = 0 \/ Len(fh) = 0 THEN fh
    ELSE LET s1 == s % _W
             s2 == (_W - s1) % _W
         IN  [i \in 1..Len(fh) |->
                IF i > 1
                THEN BitOr(ShiftRight(fh[i], s1), ShiftLeft(fh[i - 1], s2))
                ELSE ShiftRight(fh[1], s1)]

\* fh.Dup(): a new slice with the same limbs
FuzzyHashDup(fh) == [i \in 1..Len(fh) |-> fh[i]]

\* a distance that counts the differing bits of the first limb only
distanceOfFirstLimb(b0, b1) ==
    IF Len(b0) = 0 THEN 0 ELSE OnesCount64(BitXor(b0[1], b1[1]))

RECURSIVE distanceFrom(_, _, _)
distanceFrom(b0, b1, i) ==
    IF i > Len(b0) THEN 0
    ELSE OnesCount64(BitXor(b0[i], b1[i])) + distanceFrom(b0, b1, i + 1)

distanceUint64s(b0, b1) == distanceFrom(b0, b1, 1)

----------------------------------------------------------------------------
(* Hex strings.  A string is the sequence of its bytes. *)

\* uint64(d) for 0 <= d < 16
Uint64OfDigit(d) == [i \in 1.._W |-> IF i > _W - 4 THEN (d \div 2^(_W - i)) % 2 ELSE 0]

\* the character %x writes for the digit d
HexChar(d) == IF d < 10 THEN 48 + d ELSE 87 + d

\* fmt.Sprintf("%016x", v): 16 lowercase digits, the most significant first
Sprintf016x(v) == [j \in 1..16 |-> HexChar(BitsValue(v, _W - 4 * j, _W - 4 * j + 3))]

\* a ToString that writes the limbs in the reverse order
FuzzyHashToStringReversed(fh) ==
    [k \in 1..(16 * Len(fh)) |->
        Sprintf016x(fh[Len(fh) - ((k - 1) \div 16)])[((k - 1) % 16) + 1]]

\* FuzzyHash.ToString: the limbs in order, 16 digits each
FuzzyHashToString(fh) ==
    [k \in 1..(16 * Len(fh)) |-> Sprintf016x(fh[((k - 1) \div 16) + 1])[((k - 1) % 16) + 1]]

\* a table without the lowercase digits
asciiCodesWithoutLowercase ==
    [c \in 0..260 |->
        IF c >= 48 /\ c <= 57 THEN c - 48
        ELSE IF c >= 65 /\ c <= 70 THEN c - 55
        ELSE 0 - 1]

\* var asciiCodes: 261 entries, the digit of '0'..'9', 'A'..'F', 'a'..'f' and
\* -1 everywhere else
asciiCodes ==
    [c \in 0..260 |->
        IF c >= 48 /\ c <= 57 THEN c - 48
        ELSE IF c >= 65 /\ c <= 70 THEN c - 55
        ELSE IF c >= 97 /\ c <= 102 THEN c - 87
        ELSE 0 - 1]

\* what HashStringToFuzzyHash returns: the limbs, whether err is not nil, and
\* whether an index left the table
Parsed(fuzzyHash, err, panic) == [fh |-> fuzzyHash, err |-> err, panic |-> panic]

\* the loop of HashStringToFuzzyHash from offset i (0-based)
RECURSIVE hexLoop(_, _, _, _, _)
hexLoop(s, i, val, bytes, fuzzyHash) ==
    IF i >= Len(s) THEN Parsed(fuzzyHash, FALSE, FALSE)
    ELSE IF s[i + 1] \notin DOMAIN asciiCodes \/ s[i + 2] \notin DOMAIN asciiCodes
         THEN Parsed(fuzzyHash, FALSE, TRUE)
         ELSE LET d0 == asciiCodes[s[i + 1]]
                  d1 == asciiCodes[s[i + 2]]
              IN  IF d0 < 0 \/ d1 < 0 THEN Parsed(fuzzyHash, TRUE, FALSE)
                  ELSE LET val1 == BitOr(ShiftLeft(val, 4), Uint64OfDigit(d0))
                           val2 == BitOr(ShiftLeft(val1, 4), Uint64OfDigit(d1))
                       IN  IF bytes + 1 = 8
                           THEN hexLoop(s, i + 2, Zero64, 0, Append(fuzzyHash, val2))
                           ELSE hexLoop(s, i + 2, val2, bytes + 1, fuzzyHash)

HashStringToFuzzyHash(s) ==
    IF Len(s) % 2 # 0 THEN Parsed(<<>>, TRUE, FALSE)
    ELSE hexLoop(s, 0, Zero64, 0, <<>>)

----------------------------------------------------------------------------
(* The digest (Tlsh).  A byte is a number in 0..255; bucket arrays and the
   selection buffers are functions on their 0-based indexes. *)

codeSize == 32
windowLength == 5
effBuckets == 128
numBuckets == 256

\* byte ^ byte
RECURSIVE XorBits(_, _, _)
XorBits(a, b, n) ==
    IF n = 0 THEN 0
    ELSE (((a % 2) + (b % 2)) % 2) + 2 * XorBits(a \div 2, b \div 2, n - 1)

Xor8(a, b) == XorBits(a, b, 8)

\* Tlsh, as NewTlsh builds it; Code[k + 1] is Code[k] of the array
Tlsh(checksum, lValue, q1Ratio, q2Ratio, qRatio, code) ==
    [checksum |-> checksum, lValue |-> lValue, q1Ratio |-> q1Ratio,
     q2Ratio |-> q2Ratio, qRatio |-> qRatio, Code |-> code]

\* &Tlsh{}
ZeroTlsh == Tlsh(0, 0, 0, 0, 0, [k \in 1..codeSize |-> 0])

swapByte(in) == ((in \div 16) % 16) + ((in % 16) * 16)

\* a Binary that leaves the first two bytes as they are
BinaryUnswapped(t) == <<t.checksum, t.lValue, t.qRatio>> \o t.Code

Binary(t) == <<swapByte(t.checksum), swapByte(t.lValue), t.qRatio>> \o t.Code

\* hex.EncodeToString: two lowercase digits a byte
EncodeToString(bytes) ==
    [i \in 1..(2 * Len(bytes)) |->
        IF i % 2 = 1 THEN HexChar(bytes[(i + 1) \div 2] \div 16)
                     ELSE HexChar(bytes[i \div 2] % 16)]

String(t) == EncodeToString(Binary(t))

\* the value of a digit of hex.DecodeString, 16 for any other byte
fromHexChar(c) ==
    IF c >= 48 /\ c <= 57 THEN c - 48
    ELSE IF c >= 97 /\ c <= 102 THEN c - 87
    ELSE IF c >= 65 /\ c <= 70 THEN c - 55
    ELSE 16

\* hex.DecodeString: the bytes decoded before the first bad digit, and an
\* error for a bad digit or an odd length
RECURSIVE decodeLoop(_, _, _)
decodeLoop(s, j, bytes) ==
    IF j > Len(s) THEN [bytes |-> bytes, err |-> Len(s) % 2 = 1]
    ELSE LET a == fromHexChar(s[j - 1])
             b == fromHexChar(s[j])
         IN  IF a > 15 \/ b > 15 THEN [bytes |-> bytes, err |-> TRUE]
             ELSE decodeLoop(s, j + 2, Append(bytes, a * 16 + b))

DecodeString(s) == decodeLoop(s, 2, <<>>)

\* ParseStringToTlsh: hashByte[0..2] of fewer than 3 bytes is an index out of
\* range; copy(code[:], hashByte[3:]) copies at most codeSize bytes
ParseStringToTlsh(hashString) ==
    LET d == DecodeString(hashString)
        hashByte == d.bytes
    IN  IF d.err THEN [tlsh |-> ZeroTlsh, err |-> TRUE, panic |-> FALSE]
        ELSE IF Len(hashByte) < 3 THEN [tlsh |-> ZeroTlsh, err |-> FALSE, panic |-> TRUE]
        ELSE LET qRatio == hashByte[3]
                 code == [k \in 1..codeSize |->
                             IF 3 + k <= Len(hashByte) THEN hashByte[3 + k] ELSE 0]
             IN  [tlsh |-> Tlsh(swapByte(hashByte[1]), swapByte(hashByte[2]),
                                (qRatio \div 16) % 16, qRatio % 16, qRatio, code),
                  err |-> FALSE, panic |-> FALSE]

\* A loop of the digest is written as the iterations it runs: the body is
\* a step on a record st of the loop's variables, st.done tells that the
\* loop has ended, and n iterations are the first half of them followed by
\* the rest.

\* partition: the body of  for i := left; i < right; i++
scanStep(st, right, val) ==
    IF st.i >= right THEN [st EXCEPT !.done = TRUE]
    ELSE IF st.buf[st.i] < val
         THEN [st EXCEPT !.buf = [@ EXCEPT ![st.i] = st.buf[st.ret], ![st.ret] = st.buf[st.i]],
                         !.i = @ + 1, !.ret = @ + 1]
         ELSE [st EXCEPT !.i = @ + 1]

RECURSIVE partitionScan(_, _, _, _)
partitionScan(st, right, val, n) ==
    IF st.done \/ n = 0 THEN st
    ELSE IF n = 1 THEN scanStep(st, right, val)
    ELSE partitionScan(partitionScan(st, right, val, n \div 2), right, val, n - (n \div 2))

\* partition, after the scan s: buf[right] = buf[ret]; buf[ret] = val
partitionEnd(s, right, val, inRange) ==
    [buf |-> [s.buf EXCEPT ![right] = s.buf[s.ret], ![s.ret] = val],
     ret |-> s.ret, inRange |-> inRange]

\* partition of more than two elements around val == buf[pivot]
partitionAround(buf, left, right, pivot, val, inRange) ==
    partitionEnd(partitionScan([buf |-> [buf EXCEPT ![pivot] = buf[right], ![right] = val],
                                i |-> left, ret |-> left, done |-> FALSE],
                               right, val, effBuckets + 1),
                 right, val, inRange)

\* a partition that leaves a pair of elements in the order it finds them
partitionWithoutPairSwap(buf, left, right) ==
    IF left = right \/ left + 1 = right
    THEN [buf |-> buf, ret |-> left,
          inRange |-> left >= 0 /\ left <= right /\ right < effBuckets]
    ELSE partitionAround(buf, left, right, (left + right) \div 2,
                         buf[(left + right) \div 2],
                         left >= 0 /\ left <= right /\ right < effBuckets)

\* partition; inRange tells that left <= right < effBuckets
partition(buf, left, right) ==
    LET inRange == left >= 0 /\ left <= right /\ right < effBuckets
    IN  IF left = right THEN [buf |-> buf, ret |-> left, inRange |-> inRange]
        ELSE IF left + 1 = right
        THEN [buf |-> IF buf[left] > buf[right]
                      THEN [buf EXCEPT ![right] = buf[left], ![left] = buf[right]]
                      ELSE buf,
              ret |-> left, inRange |-> inRange]
        ELSE partitionAround(buf, left, right, (left + right) \div 2,
                             buf[(left + right) \div 2], inRange)

p1 == effBuckets \div 4 - 1
p2 == effBuckets \div 2 - 1
p3 == effBuckets - effBuckets \div 4 - 1

\* quartilePoints: the body of the first loop, which finds q2 and notes the
\* boundaries, after p == partition(bucketCopy, l, r)
medianNext(st, p) ==
    IF p.ret > p2
    THEN [st EXCEPT !.buf = p.buf, !.r = p.ret - 1, !.inRange = @ /\ p.inRange,
                    !.shortCutRight = [@ EXCEPT ![st.spr] = p.ret], !.spr = @ + 1]
    ELSE IF p.ret < p2
    THEN [st EXCEPT !.buf = p.buf, !.l = p.ret + 1, !.inRange = @ /\ p.inRange,
                    !.shortCutLeft = [@ EXCEPT ![st.spl] = p.ret], !.spl = @ + 1]
    ELSE [st EXCEPT !.buf = p.buf, !.q = p.buf[p2], !.inRange = @ /\ p.inRange,
                    !.done = TRUE]

medianStep(st) == medianNext(st, partition(st.buf, st.l, st.r))

RECURSIVE medianLoop(_, _)
medianLoop(st, n) ==
    IF st.done \/ n = 0 THEN st
    ELSE IF n = 1 THEN medianStep(st)
    ELSE medianLoop(medianLoop(st, n \div 2), n - (n \div 2))

\* quartilePoints: the body of the inner for {} of the second and of the
\* third loop, which looks for position p, after x == partition(bucketCopy, l, r)
selectNext(st, x, p) ==
    IF x.ret > p THEN [st EXCEPT !.buf = x.buf, !.r = x.ret - 1, !.inRange = @ /\ x.inRange]
    ELSE IF x.ret < p
    THEN [st EXCEPT !.buf = x.buf, !.l = x.ret + 1, !.inRange = @ /\ x.inRange]
    ELSE [st EXCEPT !.buf = x.buf, !.q = x.buf[p], !.inRange = @ /\ x.inRange,
                    !.done = TRUE]

selectStep(st, p) == selectNext(st, partition(st.buf, st.l, st.r), p)

RECURSIVE selectLoop(_, _, _)
selectLoop(st, p, n) ==
    IF st.done \/ n = 0 THEN st
    ELSE IF n = 1 THEN selectStep(st, p)
    ELSE selectLoop(selectLoop(st, p, n \div 2), p, n - (n \div 2))

\* quartilePoints: the body of the second loop, which finds q1;
\* i runs to spl, l is kept from one iteration to the next
firstQuartileStep(st, shortCutLeft, spl) ==
    IF st.i > spl THEN [st EXCEPT !.done = TRUE]
    ELSE LET r == shortCutLeft[st.i]
         IN  IF r > p1
             THEN selectLoop([st EXCEPT !.r = r], p1, effBuckets)
             ELSE IF r < p1 THEN [st EXCEPT !.l = r, !.i = @ + 1]
             ELSE [st EXCEPT !.q = st.buf[p1], !.done = TRUE]

RECURSIVE firstQuartileLoop(_, _, _, _)
firstQuartileLoop(st, shortCutLeft, spl, n) ==
    IF st.done \/ n = 0 THEN st
    ELSE IF n = 1 THEN firstQuartileStep(st, shortCutLeft, spl)
    ELSE firstQuartileLoop(firstQuartileLoop(st, shortCutLeft, spl, n \div 2),
                           shortCutLeft, spl, n - (n \div 2))

\* quartilePoints: the body of the third loop, which finds q3;
\* i runs to spr, r is kept from one iteration to the next
thirdQuartileStep(st, shortCutRight, spr) ==
    IF st.i > spr THEN [st EXCEPT !.done = TRUE]
    ELSE LET l == shortCutRight[st.i]
         IN  IF l < p3
             THEN selectLoop([st EXCEPT !.l = l], p3, effBuckets)
             ELSE IF l > p3 THEN [st EXCEPT !.r = l, !.i = @ + 1]
             ELSE [st EXCEPT !.q = st.buf[p3], !.done = TRUE]

RECURSIVE thirdQuartileLoop(_, _, _, _)
thirdQuartileLoop(st, shortCutRight, spr, n) ==
    IF st.done \/ n = 0 THEN st
    ELSE IF n = 1 THEN thirdQuartileStep(st, shortCutRight, spr)
    ELSE thirdQuartileLoop(thirdQuartileLoop(st, shortCutRight, spr, n \div 2),
                           shortCutRight, spr, n - (n \div 2))

\* quartilePoints: the results of the three loops m, f and t
quartiles(buckets, m, f, t) ==
    [q1 |-> f.q, q2 |-> m.q, q3 |-> t.q, inRange |-> t.inRange,
     done |-> m.done /\ f.done /\ t.done, buckets |-> buckets]

\* quartilePoints: the third loop, after the first two
quartilesThird(buckets, m, f) ==
    quartiles(buckets, m, f,
              thirdQuartileLoop([buf |-> f.buf, i |-> 0, l |-> 0, r |-> effBuckets - 1,
                                 q |-> 0, inRange |-> f.inRange, done |-> FALSE],
                                [m.shortCutRight EXCEPT ![m.spr] = p2 + 1], m.spr,
                                effBuckets + 1))

\* quartilePoints: the second loop, after the first
quartilesFirst(buckets, m) ==
    quartilesThird(buckets, m,
                   firstQuartileLoop([buf |-> m.buf, i |-> 0, l |-> 0, r |-> 0, q |-> 0,
                                      inRange |-> m.inRange, done |-> FALSE],
                                     [m.shortCutLeft EXCEPT ![m.spl] = p2 - 1], m.spl,
                                     effBuckets + 1))

\* quartilePoints works on bucketCopy, a copy of the first effBuckets
\* buckets.  Every iteration of a selection narrows l..r, so effBuckets
\* iterations end a loop that ends at all: done tells that the three did.
quartilePoints(buckets) ==
    quartilesFirst(buckets,
                   medianLoop([buf |-> [i \in 0..(effBuckets - 1) |-> buckets[i]],
                               l |-> 0, r |-> effBuckets - 1, q |-> 0,
                               shortCutLeft |-> [i \in 0..(effBuckets - 1) |-> 0], spl |-> 0,
                               shortCutRight |-> [i \in 0..(effBuckets - 1) |-> 0], spr |-> 0,
                               inRange |-> TRUE, done |-> FALSE], effBuckets))

\* lValue: byte(math.Floor(...)) of the three branches (length <= 656,
\* length <= 3199, else), computed in float64 with the constants log1_5,
\* log1_3 and log1_1.  The result grows by one at each of the lengths of
\* lValueSteps, from 0 at length 1; the list covers the lengths below 2^31.
\* For length 0 the logarithm is -Inf and the byte of it is 0: the
\* conversion goes through a 64 bit integer whose low byte is 0.
lValueSteps ==
    << 1, 2, 3, 4, 6, 8, 12, 18, 26, 39, 58, 87, 130, 195, 292, 438, 657,
       855, 1111, 1444, 1877, 2440, 3172, 3476, 3824, 4206, 4627, 5089,
       5598, 6158, 6773, 7451, 8196, 9015, 9917, 10908, 11999, 13199,
       14519, 15971, 17568, 19324, 21257, 23383, 25721, 28293, 31122,
       34234, 37657, 41423, 45565, 50122, 55134, 60647, 66712, 73383,
       80722, 88794, 97673, 107440, 118184, 130003, 143003, 157303,
       173033, 190337, 209370, 230307, 253338, 278672, 306539, 337192,
       370912, 408003, 448803, 493683, 543052, 597357, 657092, 722801,
       795082, 874590, 962049, 1058253, 1164079, 1280486, 1408535,
       1549388, 1704327, 1874760, 2062236, 2268459, 2495305, 2744836,
       3019319, 3321251, 3653376, 4018714, 4420585, 4862644, 5348908,
       5883799, 6472179, 7119396, 7831336, 8614470, 9475916, 10423508,
       11465859, 12612445, 13873689, 15261058, 16787164, 18465880,
       20312468, 22343715, 24578086, 27035895, 29739484, 32713432,
       35984776, 39583253, 43541578, 47895736, 52685310, 57953841,
       63749225, 70124147, 77136562, 84850218, 93335240, 102668763,
       112935640, 124229204, 136652124, 150317336, 165349070, 181883977,
       200072375, 220079612, 242087573, 266296331, 292925964, 322218560,
       354440416, 389884458, 428872904, 471760194, 518936214, 570829835,
       627912819, 690704101, 759774511, 835751962, 919327159, 1011259875,
       1112385862, 1223624449, 1345986894, 1480585583, 1628644142,
       1791508556, 1970659412 >>

lValue(length) ==
    IF length = 0 THEN 0
    ELSE (Cardinality({k \in 1..Len(lValueSteps) : lValueSteps[k] <= length}) - 1) % 255

\* the label of a bucket count k
label(k, q1, q2, q3) == IF q3 < k THEN 3 ELSE IF q2 < k THEN 2 ELSE IF q1 < k THEN 1 ELSE 0

\* a code that holds the buckets 4i .. 4i+3 in byte i
bucketsBinaryRepresentationForward(buckets, q1, q2, q3) ==
    [k \in 1..codeSize |->
        LET i == k - 1
        IN  label(buckets[4 * i], q1, q2, q3)
          + label(buckets[4 * i + 1], q1, q2, q3) * 4
          + label(buckets[4 * i + 2], q1, q2, q3) * 16
          + label(buckets[4 * i + 3], q1, q2, q3) * 64]

\* biHash[(codeSize-1)-i] = h of the buckets 4i .. 4i+3
bucketsBinaryRepresentation(buckets, q1, q2, q3) ==
    [k \in 1..codeSize |->
        LET i == codeSize - k
        IN  label(buckets[4 * i], q1, q2, q3)
          + label(buckets[4 * i + 1], q1, q2, q3) * 4
          + label(buckets[4 * i + 2], q1, q2, q3) * 16
          + label(buckets[4 * i + 3], q1, q2, q3) * 64]

reverse(s) == [i \in 1..Len(s) |-> s[Len(s) + 1 - i]]

\* This is a kind of randomly picked mapping table
vTableBytes ==
    << 1, 87, 49, 12, 176, 178, 102, 166, 121, 193, 6, 84, 249, 230, 44, 163,
       14, 197, 213, 181, 161, 85, 218, 80, 64, 239, 24, 226, 236, 142, 38, 200,
       110, 177, 104, 103, 141, 253, 255, 50, 77, 101, 81, 18, 45, 96, 31, 222,
       25, 107, 190, 70, 86, 237, 240, 34, 72, 242, 20, 214, 244, 227, 149, 235,
       97, 234, 57, 22, 60, 250, 82, 175, 208, 5, 127, 199, 111, 62, 135, 248,
       174, 169, 211, 58, 66, 154, 106, 195, 245, 171, 17, 187, 182, 179, 0, 243,
       132, 56, 148, 75, 128, 133, 158, 100, 130, 126, 91, 13, 153, 246, 216, 219,
       119, 68, 223, 78, 83, 88, 201, 99, 122, 11, 92, 32, 136, 114, 52, 10,
       138, 30, 48, 183, 156, 35, 61, 26, 143, 74, 251, 94, 129, 162, 63, 152,
       170, 7, 115, 167, 241, 206, 3, 150, 55, 59, 151, 220, 90, 53, 23, 131,
       125, 173, 15, 238, 79, 95, 89, 16, 105, 137, 225, 224, 217, 160, 37, 123,
       118, 73, 2, 157, 46, 116, 9, 145, 134, 228, 207, 212, 202, 215, 69, 229,
       27, 188, 67, 124, 168, 252, 42, 4, 29, 108, 21, 247, 19, 205, 39, 203,
       233, 40, 186, 147, 198, 192, 155, 33, 164, 191, 98, 204, 165, 180, 117, 76,
       140, 36, 210, 172, 41, 54, 159, 8, 185, 232, 113, 196, 231, 47, 146, 120,
       51, 65, 28, 144, 254, 221, 93, 189, 194, 139, 112, 43, 71, 109, 184, 209 >>
vTable(i) == vTableBytes[i + 1]

pearsonHash(salt, keys) ==
    vTable(Xor8(vTable(Xor8(vTable(Xor8(vTable(Xor8(0, salt)), keys[1])), keys[2])), keys[3]))

salt == <<2, 3, 5, 7, 11, 13>>

\* a FuzzyReader over the bytes buf whose first Read delivers at most first
\* bytes: Read may return fewer bytes than asked for, and with first = 0 it
\* returns 0 bytes and a nil error, which io.Reader allows
FuzzyReader(buf, first) == [buf |-> buf, first |-> first]

\* bytes.NewReader(blob): Read copies as many bytes as there are, and
\* returns io.EOF when there is none
NewReader(blob) == FuzzyReader(blob, Len(blob) + 1)

\* n, err := r.Read(p) on a fresh reader, p of length size
Read(r, size) ==
    IF r.first = 0 THEN [n |-> 0, err |-> FALSE]
    ELSE IF Len(r.buf) = 0 THEN [n |-> 0, err |-> TRUE]
    ELSE LET have == IF r.first < Len(r.buf) THEN r.first ELSE Len(r.buf)
         IN  [n |-> IF size < have THEN size ELSE have, err |-> FALSE]

\* the bucket updates of a window without the one of salt[5]
windowBucketsButLast(chunk) ==
    << pearsonHash(salt[1], <<chunk[1], chunk[2], chunk[3]>>),
       pearsonHash(salt[2], <<chunk[1], chunk[2], chunk[4]>>),
       pearsonHash(salt[3], <<chunk[1], chunk[3], chunk[4]>>),
       pearsonHash(salt[4], <<chunk[1], chunk[3], chunk[5]>>),
       pearsonHash(salt[5], <<chunk[1], chunk[2], chunk[5]>>) >>

\* the six buckets[pearsonHash(salt[j], chunk3)]++ of a window; chunk[k + 1]
\* is chunk[k] of the array
windowBuckets(chunk) ==
    << pearsonHash(salt[1], <<chunk[1], chunk[2], chunk[3]>>),
       pearsonHash(salt[2], <<chunk[1], chunk[2], chunk[4]>>),
       pearsonHash(salt[3], <<chunk[1], chunk[3], chunk[4]>>),
       pearsonHash(salt[4], <<chunk[1], chunk[3], chunk[5]>>),
       pearsonHash(salt[5], <<chunk[1], chunk[2], chunk[5]>>),
       pearsonHash(salt[6], <<chunk[1], chunk[4], chunk[5]>>) >>

RECURSIVE increment(_, _, _)
increment(buckets, hs, j) ==
    IF j > Len(hs) THEN buckets
    ELSE increment([buckets EXCEPT ![hs[j]] = @ + 1], hs, j + 1)

\* fillBuckets: the body of the for loop; pos bytes of r.buf are read and
\* windows lists the window of every position so far
fillStep(r, st) ==
    LET chunk == st.chunk
        checksum == pearsonHash(0, <<chunk[1], chunk[2], st.checksum>>)
        buckets == increment(st.buckets, windowBuckets(chunk), 1)
        windows == Append(st.windows, chunk)
    IN  IF st.pos >= Len(r.buf)
        THEN [st EXCEPT !.buckets = buckets, !.checksum = checksum, !.windows = windows,
                        !.chunk = <<0, chunk[1], chunk[2], chunk[3], chunk[4]>>,
                        !.done = TRUE]
        ELSE [st EXCEPT !.buckets = buckets, !.checksum = checksum, !.windows = windows,
                        !.chunk = <<r.buf[st.pos + 1], chunk[1], chunk[2], chunk[3], chunk[4]>>,
                        !.pos = @ + 1, !.fileSize = @ + 1]

RECURSIVE fillLoop(_, _, _)
fillLoop(r, st, n) ==
    IF st.done \/ n = 0 THEN st
    ELSE IF n = 1 THEN fillStep(r, st)
    ELSE fillLoop(r, fillLoop(r, st, n \div 2), n - (n \div 2))

\* fillBuckets: what is returned after the loop
fillResult(f) ==
    [buckets |-> f.buckets, checksum |-> f.checksum, fileSize |-> f.fileSize,
     err |-> FALSE, windows |-> f.windows]

\* fillBuckets after a first Read of n bytes; the loop has one iteration for
\* each byte that follows, and the one that meets io.EOF
fillAfterRead(r, n) ==
    fillResult(fillLoop(r, [pos |-> n,
                            buckets |-> [i \in 0..(numBuckets - 1) |-> 0],
                            chunk |-> reverse([k \in 1..windowLength |->
                                                  IF k <= n THEN r.buf[k] ELSE 0]),
                            checksum |-> 0, fileSize |-> n, windows |-> <<>>,
                            done |-> FALSE], Len(r.buf) + 1))

\* fillBuckets; windows lists the window of every position
fillBuckets(r) ==
    IF Read(r, windowLength).err
    THEN [buckets |-> [i \in 0..(numBuckets - 1) |-> 0], checksum |-> 0, fileSize |-> 0,
          err |-> TRUE, windows |-> <<>>]
    ELSE fillAfterRead(r, Read(r, windowLength).n)

\* the number of bits of n > 0
RECURSIVE bitLen(_)
bitLen(n) == IF n = 0 THEN 0 ELSE 1 + bitLen(n \div 2)

\* float32(n) for 0 <= n < 2^31: n rounded to 24 significant bits, a tie to
\* the even mantissa
float32(n) ==
    IF n < 2 ^ 24 THEN n
    ELSE LET unit == 2 ^ (bitLen(n) - 24)
             low == (n \div unit) * unit
             rest == n - low
         IN  IF 2 * rest < unit THEN low
             ELSE IF 2 * rest > unit THEN low + unit
             ELSE IF (n \div unit) % 2 = 0 THEN low ELSE low + unit

\* the integer part of the float32 quotient a / b of two float32 values
\* that are integers, 0 <= a and 0 < b, with a quotient below 128: the
\* exact quotient lies between n and n + 1 and is rounded to 24 significant
\* bits, so it becomes n + 1 when it is at most half a unit of its last
\* place below n + 1 (n + 1 has the even mantissa)
float32Quotient(a, b) ==
    LET n == a \div b
        rest == a - n * b
        half == IF n = 0 THEN 2 ^ 25 ELSE 2 ^ (25 - bitLen(n))
    IN  IF rest # 0 /\ b - rest <= b \div half THEN n + 1 ELSE n

\* byte(float32(q)*100/float32(q3)) % 16; for q3 = 0 the quotient is NaN or
\* +Inf and the conversion to byte is implementation-dependent: undef is the
\* byte the build gives
ratio(q, q3, undef) ==
    IF q3 = 0 THEN undef % 16 ELSE (float32Quotient(float32(float32(q) * 100), float32(q3)) % 256) % 16

\* hashCalculate, after fillBuckets gave f and quartilePoints q
hashOfQuartiles(f, q, undef) ==
    LET q1Ratio == ratio(q.q1, q.q3, undef)
        q2Ratio == ratio(q.q2, q.q3, undef)
        qRatio == ((q1Ratio % 16) * 16) + (q2Ratio % 16)
    IN  [tlsh |-> Tlsh(f.checksum, lValue(f.fileSize), q1Ratio, q2Ratio, qRatio,
                       bucketsBinaryRepresentation(f.buckets, q.q1, q.q2, q.q3)),
         err |-> FALSE]

\* hashCalculate, after fillBuckets gave f
hashOfBuckets(f, undef) ==
    IF f.err THEN [tlsh |-> ZeroTlsh, err |-> TRUE]
    ELSE hashOfQuartiles(f, quartilePoints(f.buckets), undef)

hashCalculate(r, undef) == hashOfBuckets(fillBuckets(r), undef)

HashReader(r, undef) == hashCalculate(r, undef)

HashBytes(blob, undef) == HashReader(NewReader(blob), undef)

----------------------------------------------------------------------------
(* Config, H and New *)

\* a division that rounds up
GoDivUp(a, b) == (a + b - 1) \div b

\* int division of Go, truncated toward zero (b # 0)
GoDiv(a, b) ==
    IF (a >= 0) = (b > 0)
    THEN (IF a >= 0 THEN a ELSE -a) \div (IF b > 0 THEN b ELSE -b)
    ELSE -((IF a >= 0 THEN a ELSE -a) \div (IF b > 0 THEN b ELSE -b))

\* type Config struct
ConfigOf(hashSize, maxDistance, useMultiindex) ==
    [HashSize |-> hashSize, MaxDistance |-> maxDistance, UseMultiindex |-> useMultiindex]

\* &H{}: the zero instance New returns with an error; its map is the nil
\* map (nilLookup), its slice of tables is nil (tablesLen 0) and its func
\* distance is nil
ZeroH ==
    [config |-> ConfigOf(0, 0, FALSE), hashes |-> <<>>, multiIndexTables |-> <<>>,
     tablesLen |-> 0, hashesLookup |-> {}, nilLookup |-> TRUE, blocks |-> 0, blockSize |-> 0,
     lastBlockSize |-> 0, distance |-> "nil"]

\* New(config): err, or the empty instance; blocks = 0 divides by zero.
\* multiIndexTables holds 256 nil tables: a nil table is an index outside the
\* domain of the function.
New(config) ==
    LET blocks == config.MaxDistance + 1
        blockSize == GoDiv(config.HashSize, blocks)
        lastBlockSize ==
            IF blocks * blockSize < config.HashSize
            THEN config.HashSize - ((blocks - 1) * blockSize)
            ELSE blockSize
    IN  IF config.HashSize % _W # 0 THEN [err |-> TRUE, panic |-> FALSE, h |-> ZeroH]
        ELSE IF blocks > 255 THEN [err |-> TRUE, panic |-> FALSE, h |-> ZeroH]
        ELSE IF blocks = 0 THEN [err |-> FALSE, panic |-> TRUE, h |-> ZeroH]
        ELSE [err |-> FALSE, panic |-> FALSE,
              h |-> [config |-> config,
                     hashes |-> <<>>,
                     multiIndexTables |-> <<>>,
                     hashesLookup |-> {},
                     nilLookup |-> FALSE,
                     tablesLen |-> 256,
                     blocks |-> blocks,
                     blockSize |-> blockSize,
                     lastBlockSize |-> lastBlockSize,
                     distance |-> IF config.UseMultiindex
                                  THEN "shortestDistanceMultiindex"
                                  ELSE "shortestDistanceBruteForce"]]

----------------------------------------------------------------------------
(* hashesLookup: map[string]uint32 whose keys alias the callers' slices *)

\* An entry of the map: ptr is the slice the key string points into, hashed
\* the key image the entry was filed under when it was inserted, idx the value.
Entry(ptr, hashed, idx) == [ptr |-> ptr, hashed |-> hashed, idx |-> idx]

NotFound == Entry(0, <<>>, 0 - 1)

Found(e) == e.ptr # 0

\* The outcomes of looking key up in lookup.  The runtime compares the bytes
\* the stored key points at now.  An entry whose bytes were changed after it
\* was inserted is filed under its old image: whether a lookup of its present
\* image reaches it depends on the size and layout of the map, so it is either
\* found or missed.
Lookup(lookup, m, key) ==
    LET matches == {e \in lookup : toKey(m[e.ptr]) = key}
    IN  matches \cup (IF \E e \in matches : e.hashed = key THEN {} ELSE {NotFound})

----------------------------------------------------------------------------
(* multiIndexTables *)

\* sort.Search(n, func(i) bool { return hashes[i] >= hashIndex })
RECURSIVE SearchLoop(_, _, _, _)
SearchLoop(i, j, hashes, hashIndex) ==
    IF i < j
    THEN LET mid == (i + j) \div 2
         IN  IF ~(hashes[mid + 1] >= hashIndex)
             THEN SearchLoop(mid + 1, j, hashes, hashIndex)
             ELSE SearchLoop(i, mid, hashes, hashIndex)
    ELSE i

Search(hashes, hashIndex) == SearchLoop(0, Len(hashes), hashes, hashIndex)

\* make([]uint32, preallocate): a list of preallocate zeros
MakeList(preallocate) == [i \in 1..preallocate |-> 0]

\* the list with x put at position at (0-based), the tail moved up by one
InsertAt(hashes, at, x) ==
    [i \in 1..(Len(hashes) + 1) |->
        IF i <= at THEN hashes[i] ELSE IF i = at + 1 THEN x ELSE hashes[i - 1]]

\* the list without the element at position at (0-based)
DeleteAt(hashes, at) ==
    [i \in 1..(Len(hashes) - 1) |-> IF i <= at THEN hashes[i] ELSE hashes[i + 1]]

TableAt(multiIndexTables, blockIndex) ==
    IF blockIndex \in DOMAIN multiIndexTables THEN multiIndexTables[blockIndex] ELSE <<>>

\* an addMultiindex that grows a new list without storing it in the table
addMultiindexLosingNewList(multiIndexTables, blockIndex, blockValue, hashIndex, preallocate) ==
    LET indexTable0 == TableAt(multiIndexTables, blockIndex)
        isNew == blockValue \notin DOMAIN indexTable0
        hashes == IF isNew THEN MakeList(preallocate) ELSE indexTable0[blockValue]
        indexTable == (blockValue :> hashes) @@ indexTable0
        insertIndex == Search(hashes, hashIndex)
    IN  IF isNew \/ (Len(hashes) > insertIndex /\ hashes[insertIndex + 1] = hashIndex)
        THEN (blockIndex :> indexTable) @@ multiIndexTables
        ELSE (blockIndex :>
                ((blockValue :> InsertAt(hashes, insertIndex, hashIndex)) @@ indexTable))
             @@ multiIndexTables

addMultiindex(multiIndexTables, blockIndex, blockValue, hashIndex, preallocate) ==
    LET indexTable0 == TableAt(multiIndexTables, blockIndex)
        hashes == IF blockValue \in DOMAIN indexTable0
                  THEN indexTable0[blockValue]
                  ELSE MakeList(preallocate)
        indexTable == (blockValue :> hashes) @@ indexTable0
        insertIndex == Search(hashes, hashIndex)
    IN  IF Len(hashes) > insertIndex /\ hashes[insertIndex + 1] = hashIndex
        THEN (blockIndex :> indexTable) @@ multiIndexTables
        ELSE (blockIndex :>
                ((blockValue :> InsertAt(hashes, insertIndex, hashIndex)) @@ indexTable))
             @@ multiIndexTables

removeMultiindex(multiIndexTables, blockIndex, blockValue, hashIndex, preallocate) ==
    IF blockIndex \notin DOMAIN multiIndexTables THEN multiIndexTables
    ELSE LET indexTable == multiIndexTables[blockIndex]
         IN  IF blockValue \notin DOMAIN indexTable THEN multiIndexTables
             ELSE LET hashes == indexTable[blockValue]
                      removeIndex == Search(hashes, hashIndex)
                  IN  IF Len(hashes) <= removeIndex \/ hashes[removeIndex + 1] = hashIndex
                      THEN multiIndexTables
                      ELSE (blockIndex :>
                              ((blockValue :> DeleteAt(hashes, removeIndex)) @@ indexTable))
                           @@ multiIndexTables

\* len(h.hashesLookup) / (1 << uint(h.blockSize)) for 0 <= blockSize < 64; the
\* count is below 2^31, so the quotient is 0 from blockSize 31 on (1 << 63 is
\* negative and the quotient still 0)
preallocationSize(n, blockSize) ==
    IF blockSize >= 31 THEN 0 ELSE n \div (2 ^ blockSize)

\* 1 << uint(blockSize) is 0 for a shift of 64 or more: the division panics
preallocationPanics(blockSize) == blockSize >= _W \/ blockSize < 0

\* loops that leave the last block out
blockCountButLast(h) == (h.blocks - 1) % 256

\* uint8(h.blocks), the bound of the loops over the blocks
blockCount(h) == h.blocks % 256

----------------------------------------------------------------------------
(* The operations of H.  An operation takes the instance h, the heap m and    *)
(* its arguments (hash is a vector object of the heap, a query is the limbs   *)
(* of the caller's vector) and yields the set of its possible outcomes.       *)

Outcome(h, m, ok, panic) == [h |-> h, mem |-> m, ok |-> ok, panic |-> panic]

\* the heap once the slice object p holds the limbs fh; an object that no
\* caller and no instance refers to is garbage after the call
Written(m, p, fh) == IF p \in DOMAIN m THEN [m EXCEPT ![p] = fh] ELSE m

\* an Add whose loop shifts the slice of the caller
AddCallerHash(hash) == hash

\* hash = hash.Dup() in Add: the slice the loop shifts is a new object, 0,
\* that only the call refers to
AddLocalHash(hash) == 0

\* one round of the loop of Add, on the copy made by hash.Dup(): st holds the
\* block b, the slice, the tables, and the blockValue of every round so far
addBlock(h, st, hashIndex, preallocationSz) ==
    [b |-> st.b + 1,
     hash |-> rsh(st.hash, h.blockSize),
     blockValues |-> Append(st.blockValues, and(st.hash, blockMaskOf(h.blockSize))),
     multiIndexTables |->
         addMultiindex(st.multiIndexTables, st.b,
                       uint16(and(st.hash, blockMaskOf(h.blockSize))),
                       hashIndex, preallocationSz)]

\* n rounds of the loop of Add, as two runs of half the length
RECURSIVE addBlocks(_, _, _, _, _)
addBlocks(h, st, hashIndex, preallocationSz, n) ==
    IF n = 0 \/ st.hash = <<>> THEN st
    ELSE IF n = 1 THEN addBlock(h, st, hashIndex, preallocationSz)
         ELSE addBlocks(h, addBlocks(h, st, hashIndex, preallocationSz, n \div 2),
                        hashIndex, preallocationSz, n - (n \div 2))

\* the instance and the heap after the loop of Add left the rounds st
addedBlocks(h1, m, hash, st) ==
    Outcome([h1 EXCEPT !.multiIndexTables = st.multiIndexTables],
            Written(m, AddLocalHash(hash), st.hash), TRUE, FALSE)

\* Add of a fingerprint the map does not hold: lines 427 to 452; the
\* assignment to an entry of the nil map panics after the append
addNew(h, m, hash) ==
    LET hashIndex == Len(h.hashes)
        h1 == [h EXCEPT !.hashes = Append(h.hashes, hash),
                        !.hashesLookup =
                            h.hashesLookup \cup {Entry(hash, toKey(m[hash]), hashIndex)}]
    IN  IF h.nilLookup
        THEN Outcome([h EXCEPT !.hashes = Append(h.hashes, hash)], m, FALSE, TRUE)
        ELSE IF ~h.config.UseMultiindex THEN Outcome(h1, m, TRUE, FALSE)
        ELSE IF preallocationPanics(h.blockSize) \/ (blockCount(h) > 0 /\ Len(m[hash]) = 0)
             THEN Outcome(h1, m, FALSE, TRUE)
             ELSE addedBlocks(h1, m, hash,
                    addBlocks(h, [b |-> 0, hash |-> FuzzyHashDup(m[hash]), blockValues |-> <<>>,
                                  multiIndexTables |-> h.multiIndexTables],
                              hashIndex,
                              preallocationSize(Cardinality(h1.hashesLookup), h.blockSize),
                              blockCount(h)))

\* an Add that does not ask the map whether the fingerprint is there
AddUnchecked(h, m, hash, e) == addNew(h, m, hash)

\* an Add that appends to the array before it asks the map
AddAppendingFirst(h, m, hash, e) ==
    IF Found(e) THEN Outcome([h EXCEPT !.hashes = Append(h.hashes, hash)], m, FALSE, FALSE)
    ELSE addNew(h, m, hash)

\* Add, given the entry e the map lookup of the key yields
AddFound(h, m, hash, e) ==
    IF Found(e) THEN Outcome(h, m, FALSE, FALSE) ELSE addNew(h, m, hash)

Add(h, m, hash) ==
    {AddFound(h, m, hash, e) : e \in Lookup(h.hashesLookup, m, toKey(m[hash]))}

\* one round of the loop of remove: the caller's slice is shifted in place
removeBlock(h, st, hashIndex, preallocationSz) ==
    [b |-> st.b + 1,
     hash |-> rsh(st.hash, h.blockSize),
     blockValues |-> Append(st.blockValues, and(st.hash, blockMaskOf(h.blockSize))),
     multiIndexTables |->
         removeMultiindex(st.multiIndexTables, st.b,
                          uint16(and(st.hash, blockMaskOf(h.blockSize))),
                          hashIndex, preallocationSz)]

\* n rounds of the loop of remove, as two runs of half the length
RECURSIVE removeBlocks(_, _, _, _, _)
removeBlocks(h, st, hashIndex, preallocationSz, n) ==
    IF n = 0 \/ st.hash = <<>> THEN st
    ELSE IF n = 1 THEN removeBlock(h, st, hashIndex, preallocationSz)
         ELSE removeBlocks(h, removeBlocks(h, st, hashIndex, preallocationSz, n \div 2),
                           hashIndex, preallocationSz, n - (n \div 2))

\* a remove that also cuts the last slot off the array
shiftAndTruncate(hashes, hashIndex) == DeleteAt(hashes, hashIndex)

\* copy(h.hashes[hashIndex:], h.hashes[hashIndex+1:]): the tail moves down by
\* one, the length stays
shiftHashes(hashes, hashIndex) ==
    [i \in 1..Len(hashes) |->
        IF i >= hashIndex + 1 /\ i < Len(hashes) THEN hashes[i + 1] ELSE hashes[i]]

\* the entries delete(h.hashesLookup, key) may reach once the read of the
\* key gave e: the delete looks the key up on its own, by the hash of the
\* key and the bytes the stored keys point at now, and may reach e or
\* another entry of these bytes; it may miss when none of them is filed
\* under the key
Deletes(lookup, m, key, e) ==
    IF ~Found(e) THEN {e} ELSE Lookup(lookup, m, key)

\* remove, given the entry e the map lookup of the key yields and the entry
\* d the delete reaches (NotFound: the map is left as it is)
removeFound(h, m, hash, e, d) ==
    IF ~Found(e) THEN Outcome(h, m, FALSE, FALSE)
    ELSE LET hashIndex == e.idx
             lookup1 == h.hashesLookup \ {d}
         IN  IF hashIndex + 1 > Len(h.hashes)
             THEN Outcome([h EXCEPT !.hashesLookup = lookup1], m, FALSE, TRUE)
             ELSE LET h1 == [h EXCEPT !.hashesLookup = lookup1,
                                      !.hashes = shiftHashes(h.hashes, hashIndex)]
                  IN  IF ~h.config.UseMultiindex THEN Outcome(h1, m, TRUE, FALSE)
                      ELSE IF preallocationPanics(h.blockSize)
                                \/ (blockCount(h) > 0 /\ Len(m[hash]) = 0)
                           THEN Outcome(h1, m, FALSE, TRUE)
                           ELSE LET r == removeBlocks(h,
                                             [b |-> 0, hash |-> m[hash], blockValues |-> <<>>,
                                              multiIndexTables |-> h.multiIndexTables],
                                             hashIndex,
                                             preallocationSize(Cardinality(lookup1),
                                                               h.blockSize),
                                             blockCount(h))
                                IN  Outcome([h1 EXCEPT !.multiIndexTables = r.multiIndexTables],
                                            [m EXCEPT ![hash] = r.hash], TRUE, FALSE)

remove(h, m, hash) ==
    UNION {{removeFound(h, m, hash, e, d) :
                d \in Deletes(h.hashesLookup, m, toKey(m[hash]), e)} :
           e \in Lookup(h.hashesLookup, m, toKey(m[hash]))}

\* one round of the loop of AddBulk: ok = h.Add(hash) && ok
AddBulkStep(o, hash) ==
    IF o.panic THEN {o}
    ELSE {Outcome(r.h, r.mem, r.ok /\ o.ok, r.panic) : r \in Add(o.h, o.mem, hash)}

RECURSIVE AddBulkFrom(_, _, _)
AddBulkFrom(outs, hashes, k) ==
    IF k > Len(hashes) THEN outs
    ELSE AddBulkFrom(UNION {AddBulkStep(o, hashes[k]) : o \in outs}, hashes, k + 1)

AddBulk(h, m, hashes) == AddBulkFrom({Outcome(h, m, TRUE, FALSE)}, hashes, 1)

\* one round of the loop of RemoveBulk: ok = ok && h.remove(hash)
RemoveBulkStep(o, hash) ==
    IF o.panic \/ ~o.ok THEN {o}
    ELSE {Outcome(r.h, r.mem, o.ok /\ r.ok, r.panic) : r \in remove(o.h, o.mem, hash)}

RECURSIVE RemoveBulkFrom(_, _, _)
RemoveBulkFrom(outs, hashes, k) ==
    IF k > Len(hashes) THEN outs
    ELSE RemoveBulkFrom(UNION {RemoveBulkStep(o, hashes[k]) : o \in outs}, hashes, k + 1)

RemoveBulk(h, m, hashes) == RemoveBulkFrom({Outcome(h, m, TRUE, FALSE)}, hashes, 1)

RemoveAll(h) ==
    [h EXCEPT !.multiIndexTables = <<>>, !.tablesLen = 256,
              !.hashesLookup = {}, !.nilLookup = FALSE]

Count(h) == Len(h.hashes)

Config(h) == h.config

\* Contains(hash) for a query with limbs q: the possible answers
Contains(h, m, q) == {Found(e) : e \in Lookup(h.hashesLookup, m, toKey(q))}

----------------------------------------------------------------------------
(* ShortestDistance *)

\* Sibling{s, distance}; s is given by its limbs, <<>> for the nil slice
Sibling(s, distance) == [s |-> s, distance |-> distance]

RECURSIVE bruteForceFrom(_, _, _, _, _)
bruteForceFrom(h, m, hash, k, sibling) ==
    IF k > Len(h.hashes) THEN sibling
    ELSE LET candidateHash == m[h.hashes[k]]
             hammingDistance == distanceUint64s(hash, candidateHash)
         IN  bruteForceFrom(h, m, hash, k + 1,
                            IF hammingDistance < sibling.distance
                            THEN Sibling(candidateHash, hammingDistance)
                            ELSE sibling)

shortestDistanceBruteForce(h, m, hash) ==
    bruteForceFrom(h, m, hash, 1, Sibling(<<>>, h.config.HashSize))

\* the inner loop of shortestDistanceMultiindex over one candidate list;
\* st holds the sibling so far, checkedCandidates, and whether an index left
\* the arrays
RECURSIVE scanCandidates(_, _, _, _, _, _)
scanCandidates(h, m, hashOrig, candidates, k, st) ==
    IF k > Len(candidates) \/ st.panic THEN st
    ELSE LET candidateIndex == candidates[k]
         IN  IF candidateIndex >= Len(h.hashes) THEN [st EXCEPT !.panic = TRUE]
             ELSE LET checked == [st.checked EXCEPT ![candidateIndex] = @ + 1]
                      candidateHash == m[h.hashes[candidateIndex + 1]]
                      hammingDistance == distanceUint64s(hashOrig, candidateHash)
                  IN  scanCandidates(h, m, hashOrig, candidates, k + 1,
                        IF checked[candidateIndex] > 1
                        THEN [st EXCEPT !.checked = checked]
                        ELSE IF hammingDistance < st.sibling.distance
                             THEN [st EXCEPT !.checked = checked,
                                             !.sibling = Sibling(candidateHash, hammingDistance)]
                             ELSE [st EXCEPT !.checked = checked])

\* a query whose loop shifts the slice of the caller
QueryCallerHash(hash) == hash

\* hash = hash.Dup() in shortestDistanceMultiindex: the slice the loop shifts
\* is a new object, 0, that only the call refers to
QueryLocalHash(hash) == 0

\* blockValue := hash.and(blockMask); hash.rsh(uint64(h.blockSize)) of a round
scanShifted(h, st) ==
    [st EXCEPT !.b = @ + 1,
               !.hash = rsh(@, h.blockSize),
               !.blockValues = Append(@, and(st.hash, blockMaskOf(h.blockSize)))]

\* one round of the outer loop over the blocks, on the copy made by
\* hash.Dup(): st holds the block b, the slice and the blockValue of every
\* round so far as well
scanBlock(h, m, hashOrig, st) ==
    IF st.b \notin DOMAIN h.multiIndexTables
    THEN scanShifted(h, st)
    ELSE IF uint16(and(st.hash, blockMaskOf(h.blockSize))) \notin DOMAIN h.multiIndexTables[st.b]
         THEN scanShifted(h, st)
         ELSE scanCandidates(h, m, hashOrig,
                h.multiIndexTables[st.b][uint16(and(st.hash, blockMaskOf(h.blockSize)))],
                1, scanShifted(h, st))

\* n rounds of the outer loop, as two runs of half the length; and() of a
\* slice without limbs is an index out of range
RECURSIVE scanBlocks(_, _, _, _, _)
scanBlocks(h, m, hashOrig, st, n) ==
    IF n = 0 \/ st.panic THEN st
    ELSE IF st.hash = <<>> THEN [st EXCEPT !.panic = TRUE]
         ELSE IF n = 1 THEN scanBlock(h, m, hashOrig, st)
              ELSE scanBlocks(h, m, hashOrig,
                              scanBlocks(h, m, hashOrig, st, n \div 2), n - (n \div 2))

multiindexScan(h, m, hash) ==
    scanBlocks(h, m, hash,
               [b |-> 0, hash |-> FuzzyHashDup(hash), blockValues |-> <<>>,
                sibling |-> Sibling(<<>>, h.config.HashSize),
                checked |-> [i \in 0..(Len(h.hashes) - 1) |-> 0],
                panic |-> FALSE],
               blockCount(h))

\* a call that panics returns no Sibling: an index out of range in the
\* scan, or the nil dereference of the call of the nil func of the zero
\* instance
Panicked == [s |-> <<>>, distance |-> 0, panic |-> TRUE]

\* the Sibling a scan that ended with st returns
scannedSibling(st) == IF st.panic THEN Panicked ELSE st.sibling

shortestDistanceMultiindex(h, m, hash) == scannedSibling(multiindexScan(h, m, hash))

\* h.Distance(hash): the strategy New chose
Distance(h, m, hash) ==
    IF h.distance = "nil" THEN Panicked
    ELSE IF h.distance = "shortestDistanceMultiindex"
    THEN shortestDistanceMultiindex(h, m, hash)
    ELSE shortestDistanceBruteForce(h, m, hash)

\* what a multi-index scan that ended with st answers and leaves of the heap
scanned(m, hash, st) ==
    [sibling |-> st.sibling, panic |-> st.panic,
     mem |-> Written(m, QueryLocalHash(hash), st.hash)]

\* h.Distance(hash) on the vector object hash of the caller: the Sibling and
\* the heap the call leaves.  The brute-force scan only reads; the multi-index
\* scan shifts the slice that hash.Dup() made.
DistanceOf(h, m, hash) ==
    IF h.distance = "nil" THEN [sibling |-> Sibling(<<>>, 0), panic |-> TRUE, mem |-> m]
    ELSE IF h.distance = "shortestDistanceMultiindex"
    THEN scanned(m, hash, multiindexScan(h, m, m[hash]))
    ELSE [sibling |-> shortestDistanceBruteForce(h, m, m[hash]), panic |-> FALSE,
          mem |-> m]

\* a ShortestDistance that does not ask Contains first
ShortestDistanceBySearch(h, m, q) == {Distance(h, m, q)}

\* ShortestDistance(hash) for a query with limbs q: the possible Siblings
ShortestDistance(h, m, q) ==
    {IF c THEN Sibling(q, 0) ELSE Distance(h, m, q) : c \in Contains(h, m, q)}

\* ShortestDistance(hash) on the vector object hash of the caller: the
\* possible outcomes, each with the heap the call leaves
ShortestDistanceOf(h, m, hash) ==
    {IF c THEN [sibling |-> Sibling(m[hash], 0), panic |-> FALSE, mem |-> m]
          ELSE DistanceOf(h, m, hash) : c \in Contains(h, m, m[hash])}

----------------------------------------------------------------------------
(* Dup *)

\* the copy loop over the n tables of h.multiIndexTables: every one of them
\* is a map in the new instance, empty where the table of h is nil; over
\* the nil slice of the zero instance the loop has no round and the new
\* instance keeps the nil tables New made
dupTables(multiIndexTables, n) ==
    IF n = 0 THEN <<>>
    ELSE [blockIndex \in 0..(n - 1) |-> TableAt(multiIndexTables, blockIndex)]

\* the entries of lookup whose key bytes are now image
SameKey(lookup, m, image) == {e \in lookup : toKey(m[e.ptr]) = image}

\* the copy loop over h.hashesLookup: the keys are hashed anew from the bytes
\* they point at now.  Of several entries with the same bytes the last one
\* ranged over gives the value; the key pointer is that of the first one or
\* that of the last one, as the runtime keeps or replaces the key of an
\* entry it assigns to.
RECURSIVE dupLookup(_, _, _)
dupLookup(lookup, m, images) ==
    IF images = {} THEN {{}}
    ELSE LET image == CHOOSE x \in images : TRUE
             class == SameKey(lookup, m, image)
             pairs == class \X class
         IN  {rest \cup {Entry(pq[1].ptr, image, pq[2].idx)} :
                 rest \in dupLookup(lookup, m, images \ {image}), pq \in pairs}

\* a Dup that leaves the fingerprint array of the new instance empty
DupWithoutHashes(h, m) ==
    LET newH == New(h.config).h
    IN  {[newH EXCEPT !.multiIndexTables = dupTables(h.multiIndexTables, h.tablesLen),
                      !.hashesLookup = lookup] :
            lookup \in dupLookup(h.hashesLookup, m,
                                 {toKey(m[e.ptr]) : e \in h.hashesLookup})}

Dup(h, m) ==
    LET newH == New(h.config).h
    IN  {[newH EXCEPT !.hashes = [i \in 1..Len(h.hashes) |-> h.hashes[i]],
                      !.multiIndexTables = dupTables(h.multiIndexTables, h.tablesLen),
                      !.hashesLookup = lookup] :
            lookup \in dupLookup(h.hashesLookup, m,
                                 {toKey(m[e.ptr]) : e \in h.hashesLookup})}

----------------------------------------------------------------------------
(* The callers *)

\* the longest fingerprint array an instance grows to
MaxCount == 3

\* The caller's vector objects with the limbs they hold at first.
Vectors ==
    << <<U64(65535, 65535, 65535, 65535)>>,
       <<U64(0, 0, 0, 0)>>,
       <<U64(255, 255, 255, 255)>> >>

Obj == 1..Len(Vectors)

\* the fingerprints asked about
Queries ==
    {Vectors[o] : o \in Obj} \cup {<<U64(0, 0, 0, 1)>>, <<U64(255, 255, 255, 254)>>}

\* the configurations the instance is made with
Configs == {ConfigOf(64, 3, TRUE), ConfigOf(64, 3, FALSE)}

\* the lists given to AddBulk and RemoveBulk
BulkLists == {<<1, 2>>, <<2, 3>>, <<3, 1>>, <<2, 2>>}

\* the limbs of the vectors of a list, as they are when the call is made
Values(m, hashes) == [k \in 1..Len(hashes) |-> m[hashes[k]]]

\* The set an index is meant to be: Add puts a fingerprint in and answers
\* whether it was new, Remove takes it out and answers whether it was there;
\* the bulk calls do so for every element and answer the conjunction.
RECURSIVE SetAddBulk(_, _, _, _)
SetAddBulk(set, vals, k, ok) ==
    IF k > Len(vals) THEN [set |-> set, ok |-> ok]
    ELSE SetAddBulk(set \cup {vals[k]}, vals, k + 1, ok /\ vals[k] \notin set)

RECURSIVE SetRemoveBulk(_, _, _, _)
SetRemoveBulk(set, vals, k, ok) ==
    IF k > Len(vals) THEN [set |-> set, ok |-> ok]
    ELSE SetRemoveBulk(set \ {vals[k]}, vals, k + 1, ok /\ vals[k] \in set)

\* The record of the last call: the operation, the instance, the vector
\* objects given and the limbs they held, the answer the set gives, the answer
\* of the code, and the indexes whose map entry the call deleted.
Ret(op, inst, args, vals, expect, r, removed) ==
    [op |-> op, inst |-> inst, args |-> args, vals |-> vals, expect |-> expect,
     ok |-> r.ok, panic |-> r.panic, removed |-> removed]

\* the indexes whose map entry a call deleted
Deleted(h, h1) == {e.idx : e \in h.hashesLookup \ h1.hashesLookup}

\* the threads that query the shared handle
Reader == {1, 2}

IdleReader ==
    [pc |-> "idle", ref |-> 0, q |-> <<>>, snap |-> <<>>, got |-> <<>>, pending |-> 0 - 1,
     reg |-> 0]

\* var statistics = &Statistics{}; a uint64 counter is held as the integer
\* of least magnitude that is congruent to it modulo 2^64, so that -1 is
\* the counter 2^64 - 1.  started counts the queries the readers began.
ZeroStatistics == [Distance |-> 0, PendingDistance |-> 0, started |-> 0]

\* the number of calls of ShortestDistance the caller of an instance makes
\* at most
MaxQueries == 1

\* the counters after a call of ShortestDistance that no other call
\* interleaves with: Distance++, PendingDistance++ and, deferred,
\* PendingDistance--
Queried(st) == [st EXCEPT !.Distance = @ + 1, !.started = @ + 1]

Init ==
    /\ mem = Vectors
    /\ \E config \in Configs : H = <<New(config).h>>
    /\ ret = Ret("New", 1, <<>>, <<>>, TRUE, [ok |-> TRUE, panic |-> FALSE], {})
    /\ added = <<{}>>
    /\ current = 1
    /\ writer = [pc |-> "idle", newH |-> 0, batch |-> <<>>]
    /\ readers = [r \in Reader |-> IdleReader]
    /\ statistics = ZeroStatistics

CallAdd(i, hash) ==
    /\ ~ret.panic
    /\ Len(H[i].hashes) < MaxCount
    /\ LET set == SetAddBulk(added[i], <<mem[hash]>>, 1, TRUE)
       IN  /\ \E r \in Add(H[i], mem, hash) :
                /\ H' = [H EXCEPT ![i] = r.h]
                /\ mem' = r.mem
                /\ ret' = Ret("Add", i, <<hash>>, <<mem[hash]>>, set.ok, r, {})
           /\ added' = [added EXCEPT ![i] = set.set]
    /\ UNCHANGED <<current, writer, readers, statistics>>

CallAddBulk(i, hashes) ==
    /\ ~ret.panic
    /\ Len(H[i].hashes) + Len(hashes) <= MaxCount
    /\ LET set == SetAddBulk(added[i], Values(mem, hashes), 1, TRUE)
       IN  /\ \E r \in AddBulk(H[i], mem, hashes) :
                /\ H' = [H EXCEPT ![i] = r.h]
                /\ mem' = r.mem
                /\ ret' = Ret("AddBulk", i, hashes, Values(mem, hashes), set.ok, r, {})
           /\ added' = [added EXCEPT ![i] = set.set]
    /\ UNCHANGED <<current, writer, readers, statistics>>

\* Remove(v): RemoveBulk of the one vector
CallRemove(i, hash) ==
    /\ ~ret.panic
    /\ LET set == SetRemoveBulk(added[i], <<mem[hash]>>, 1, TRUE)
       IN  /\ \E r \in RemoveBulk(H[i], mem, <<hash>>) :
                /\ H' = [H EXCEPT ![i] = r.h]
                /\ mem' = r.mem
                /\ ret' = Ret("Remove", i, <<hash>>, <<mem[hash]>>, set.ok, r,
                              Deleted(H[i], r.h))
           /\ added' = [added EXCEPT ![i] = set.set]
    /\ UNCHANGED <<current, writer, readers, statistics>>

CallRemoveBulk(i, hashes) ==
    /\ ~ret.panic
    /\ LET set == SetRemoveBulk(added[i], Values(mem, hashes), 1, TRUE)
       IN  /\ \E r \in RemoveBulk(H[i], mem, hashes) :
                /\ H' = [H EXCEPT ![i] = r.h]
                /\ mem' = r.mem
                /\ ret' = Ret("RemoveBulk", i, hashes, Values(mem, hashes), set.ok, r,
                              Deleted(H[i], r.h))
           /\ added' = [added EXCEPT ![i] = set.set]
    /\ UNCHANGED <<current, writer, readers, statistics>>

CallRemoveAll(i) ==
    /\ ~ret.panic
    /\ H' = [H EXCEPT ![i] = RemoveAll(H[i])]
    /\ ret' = Ret("RemoveAll", i, <<>>, <<>>, TRUE, [ok |-> TRUE, panic |-> FALSE], {})
    /\ added' = [added EXCEPT ![i] = {}]
    /\ UNCHANGED <<mem, current, writer, readers, statistics>>

\* one instance, every operation that changes it
Next ==
    \/ \E hash \in Obj : CallAdd(1, hash)
    \/ \E hashes \in BulkLists : CallAddBulk(1, hashes)
    \/ \E hash \in Obj : CallRemove(1, hash)
    \/ \E hashes \in BulkLists : CallRemoveBulk(1, hashes)
    \/ CallRemoveAll(1)

Spec == Init /\ [][Next]_vars

\* one instance, used as a set: Add, Remove of one fingerprint, RemoveAll
NextSet ==
    \/ \E hash \in Obj : CallAdd(1, hash)
    \/ \E hash \in Obj : CallRemove(1, hash)
    \/ CallRemoveAll(1)

SpecSet == Init /\ [][NextSet]_vars

\* the calls that ask an instance without changing the set it holds
ReadOps == {"Contains", "ShortestDistance", "Count", "Config", "Dup"}

Answered == [ok |-> TRUE, panic |-> FALSE]

\* h.ShortestDistance(hash) with a vector object of the caller
CallShortestDistance(i, hash) ==
    /\ ~ret.panic
    /\ statistics.started < MaxQueries
    /\ \E r \in ShortestDistanceOf(H[i], mem, hash) :
          /\ mem' = r.mem
          /\ ret' = Ret("ShortestDistance", i, <<hash>>, <<mem[hash]>>, TRUE,
                        [ok |-> ~r.panic, panic |-> r.panic], {})
    /\ statistics' = Queried(statistics)
    /\ UNCHANGED <<H, added, current, writer, readers>>

\* h.Contains(hash) with a vector object of the caller
CallContains(i, hash) ==
    /\ ~ret.panic
    /\ \E c \in Contains(H[i], mem, mem[hash]) :
          ret' = Ret("Contains", i, <<hash>>, <<mem[hash]>>, mem[hash] \in added[i],
                     [ok |-> c, panic |-> FALSE], {})
    /\ UNCHANGED <<H, mem, added, current, writer, readers, statistics>>

\* h.Count() and h.Config()
CallCount(i) ==
    /\ ~ret.panic
    /\ ret' = Ret("Count", i, <<>>, <<Count(H[i])>>, TRUE, Answered, {})
    /\ UNCHANGED <<H, mem, added, current, writer, readers, statistics>>

CallConfig(i) ==
    /\ ~ret.panic
    /\ ret' = Ret("Config", i, <<>>, <<Config(H[i])>>, TRUE, Answered, {})
    /\ UNCHANGED <<H, mem, added, current, writer, readers, statistics>>

\* h.Dup() whose result the caller drops
CallDupOf(i) ==
    /\ ~ret.panic
    /\ \E d \in Dup(H[i], mem) :
          ret' = Ret("Dup", i, <<>>, <<Count(d)>>, TRUE, Answered, {})
    /\ UNCHANGED <<H, mem, added, current, writer, readers, statistics>>

\* one instance used as a set and asked once after a change
NextRead ==
    \/ NextSet
    \/ ret.op \notin ReadOps /\ \E hash \in Obj : CallShortestDistance(1, hash)
    \/ ret.op \notin ReadOps /\ \E hash \in Obj : CallContains(1, hash)
    \/ ret.op \notin ReadOps /\ CallCount(1)
    \/ ret.op \notin ReadOps /\ CallConfig(1)
    \/ ret.op \notin ReadOps /\ CallDupOf(1)

SpecRead == Init /\ [][NextRead]_vars

\* h = h.Dup(): the caller goes on with the duplicate
CallDupInPlace(i) ==
    /\ ~ret.panic
    /\ ret.op # "Dup"
    /\ \E d \in Dup(H[i], mem) : H' = [H EXCEPT ![i] = d]
    /\ ret' = Ret("Dup", i, <<>>, <<>>, TRUE, Answered, {})
    /\ UNCHANGED <<mem, added, current, writer, readers, statistics>>

\* one instance used as a set and replaced by its duplicate now and then
NextSetDup ==
    \/ NextSet
    \/ CallDupInPlace(1)

SpecSetDup == Init /\ [][NextSetDup]_vars

\* the vector objects of a caller who only adds: two fingerprints one bit
\* away from 0 and one far from it
NearVectors ==
    << <<U64(0, 0, 0, 1)>>,
       <<U64(0, 0, 1, 0)>>,
       <<U64(65535, 65535, 65535, 65535)>> >>

\* the configurations of the instances that are only added to: blocks of 32,
\* 16, 8 and 1 bits, and the 65 blocks of 0 bits of a radius that is the
\* hash size
AddConfigs ==
    {ConfigOf(64, maxDistance, TRUE) : maxDistance \in {1, 3, 7, 63, 64}}
        \cup {ConfigOf(64, 3, FALSE)}

InitAdd ==
    /\ mem = NearVectors
    /\ \E config \in AddConfigs : H = <<New(config).h>>
    /\ ret = Ret("New", 1, <<>>, <<>>, TRUE, Answered, {})
    /\ added = <<{}>>
    /\ current = 1
    /\ writer = [pc |-> "idle", newH |-> 0, batch |-> <<>>]
    /\ readers = [r \in Reader |-> IdleReader]
    /\ statistics = ZeroStatistics

\* one instance built by Add and AddBulk only
NextAdd ==
    \/ \E hash \in Obj : CallAdd(1, hash)
    \/ \E hashes \in BulkLists : CallAddBulk(1, hashes)

SpecAdd == InitAdd /\ [][NextAdd]_vars

\* the radii the instance is made with: blocks of 64, 32, 16 and 8 bits
Radii == {0, 1, 3, 7}

\* the configurations of 64 bits New accepts, over Radii
AcceptedConfigs ==
    {config \in {ConfigOf(64, maxDistance, useMultiindex) :
                     maxDistance \in Radii, useMultiindex \in BOOLEAN} :
        ~New(config).err /\ ~New(config).panic}

InitAccepted ==
    /\ mem = Vectors
    /\ \E config \in AcceptedConfigs : H = <<New(config).h>>
    /\ ret = Ret("New", 1, <<>>, <<>>, TRUE, [ok |-> TRUE, panic |-> FALSE], {})
    /\ added = <<{}>>
    /\ current = 1
    /\ writer = [pc |-> "idle", newH |-> 0, batch |-> <<>>]
    /\ readers = [r \in Reader |-> IdleReader]
    /\ statistics = ZeroStatistics

\* one instance of any accepted configuration, every operation that changes it
SpecAccepted == InitAccepted /\ [][Next]_vars

\* the hash sizes and the radii New is called with
HashSizes == {0, 1, 63, 64, 65, 128, 192, 256, 320}

MaxDistances == {0 - 1, 0, 1, 2, 3, 4, 7, 11, 15, 16, 35, 63, 64, 253, 254, 255, 256}

\* h, err := New(config): the instance is replaced by the one New returns.
\* When New aborts on the division by blocks = 0 the assignment never happens:
\* the instance of the caller stays as it was and the program ends.
CallNew(config) ==
    LET r == New(config)
    IN  /\ ~ret.panic
        /\ H' = IF r.panic THEN H ELSE <<r.h>>
        /\ ret' = Ret("New", 1, <<config>>, <<>>, TRUE,
                      [ok |-> ~r.err /\ ~r.panic, panic |-> r.panic], {})
        /\ added' = IF r.panic THEN added ELSE <<{}>>
        /\ UNCHANGED <<mem, current, writer, readers, statistics>>

NextNew ==
    \E hashSize \in HashSizes, maxDistance \in MaxDistances, useMultiindex \in BOOLEAN :
        CallNew(ConfigOf(hashSize, maxDistance, useMultiindex))

\* New on every configuration over HashSizes and MaxDistances
SpecNew == Init /\ [][NextNew]_vars

\* an instance the calls of the functions below leave alone
InitIdle == Init /\ ~H[1].config.UseMultiindex

\* the strings HashStringToFuzzyHash is called with: up to MaxWords words of
\* 16 characters ("0a2b3c4d5e6f7089", "FFFFFFFFFFFFFFFF", "11K2334455667788"),
\* followed by nothing, by one character, or by two characters of which one
\* is any byte
MaxWords == 2

HexWords ==
    { <<48, 97, 50, 98, 51, 99, 52, 100, 53, 101, 54, 102, 55, 48, 56, 57>>,
      <<70, 70, 70, 70, 70, 70, 70, 70, 70, 70, 70, 70, 70, 70, 70, 70>>,
      <<49, 49, 75, 50, 51, 51, 52, 52, 53, 53, 54, 54, 55, 55, 56, 56>> }

HexTails ==
    {<<>>} \cup {<<c>> : c \in {48, 70, 102, 75}}
           \cup {<<c, 48>> : c \in 0..255} \cup {<<70, c>> : c \in 0..255}

RECURSIVE Concat(_, _)
Concat(words, k) == IF k > Len(words) THEN <<>> ELSE words[k] \o Concat(words, k + 1)

HexStrings ==
    {Concat(words, 1) \o tail :
        words \in UNION {[1..n -> HexWords] : n \in 0..MaxWords}, tail \in HexTails}

\* fh, err := HashStringToFuzzyHash(s), the one call of a run
CallHashStringToFuzzyHash(s) ==
    LET r == HashStringToFuzzyHash(s)
    IN  /\ ret.op = "New"
        /\ ret' = Ret("HashStringToFuzzyHash", 0, <<s>>, <<r.fh>>, TRUE,
                      [ok |-> ~r.err, panic |-> r.panic], {})
        /\ UNCHANGED <<mem, H, added, current, writer, readers, statistics>>

NextHex == \E s \in HexStrings : CallHashStringToFuzzyHash(s)

SpecHex == InitIdle /\ [][NextHex]_vars

\* the vectors rsh is called with: 1..MaxLimbs limbs, each one of
\* 0x1122334455667788 (TestFuzzyHashRsh), all ones, 0x8000000000000001, 0
MaxLimbs == 2

RshLimbs ==
    { U64(4386, 13124, 21862, 30600),
      U64(65535, 65535, 65535, 65535),
      U64(32768, 0, 0, 1),
      Zero64 }

RshVectors == UNION {[1..n -> RshLimbs] : n \in 1..MaxLimbs}

\* the shift counts: 0 and every s in [1, _W - 1]
Shifts == 0..(_W - 1)

\* fh.rsh(s), the one call of a run; vals is fh after the call
CallRsh(fh, s) ==
    /\ ret.op = "New"
    /\ ret' = Ret("rsh", 0, <<fh, s>>, <<rsh(fh, s)>>, TRUE,
                  [ok |-> TRUE, panic |-> FALSE], {})
    /\ UNCHANGED <<mem, H, added, current, writer, readers, statistics>>

NextRsh == \E fh \in RshVectors, s \in Shifts : CallRsh(fh, s)

SpecRsh == InitIdle /\ [][NextRsh]_vars

\* the radii of the instances whose loops over the blocks are compared
BlockRadii == {3, 4, 7, 8, 15, 31, 63, 127, 191}

\* the blockValue of every round of the loops of Add, of remove and of the
\* multi-index query on the fingerprint fh, in an instance of Len(fh) limbs
\* and the radius maxDistance; the one call of a run
CallBlocks(fh, maxDistance) ==
    LET h == New(ConfigOf(_W * Len(fh), maxDistance, TRUE)).h
        st == [b |-> 0, hash |-> FuzzyHashDup(fh), blockValues |-> <<>>,
               multiIndexTables |-> h.multiIndexTables]
    IN  /\ ret.op = "New"
        /\ h.blockSize >= 1 /\ h.blockSize <= 16
        /\ ret' = Ret("blocks", 0, <<fh, h.blocks, h.blockSize>>,
                      << addBlocks(h, st, 0, 0, blockCount(h)).blockValues,
                         removeBlocks(h, st, 0, 0, blockCount(h)).blockValues,
                         multiindexScan(h, <<>>, fh).blockValues >>,
                      TRUE, [ok |-> TRUE, panic |-> FALSE], {})
        /\ UNCHANGED <<mem, H, added, current, writer, readers, statistics>>

NextBlocks == \E fh \in RshVectors, maxDistance \in BlockRadii : CallBlocks(fh, maxDistance)

SpecBlocks == InitIdle /\ [][NextBlocks]_vars

\* d := distanceUint64s(b0, b1) on two vectors of the same length, the one
\* call of a run
CallDistance(b0, b1) ==
    /\ ret.op = "New"
    /\ Len(b0) = Len(b1)
    /\ ret' = Ret("distanceUint64s", 0, <<b0, b1>>, <<distanceUint64s(b0, b1)>>, TRUE,
                  [ok |-> TRUE, panic |-> FALSE], {})
    /\ UNCHANGED <<mem, H, added, current, writer, readers, statistics>>

NextDistance == \E b0 \in RshVectors, b1 \in RshVectors : CallDistance(b0, b1)

SpecDistance == InitIdle /\ [][NextDistance]_vars

\* the streams the digest is computed of: up to MaxBytes bytes, each one 0
\* or 255
MaxBytes == 5

StreamBytes == {0, 255}

Streams == UNION {[1..n -> StreamBytes] : n \in 0..MaxBytes}

\* the number of bytes the first Read of a reader delivers at most, from a
\* Read of 0 bytes with a nil error to a full window
FirstReads == 0..windowLength

\* the byte a build gives for byte(NaN) and byte(+Inf)
UndefinedBytes == {0, 255}

\* HashBytes(buf) and HashReader(r) for a reader r over buf, in one build;
\* the one pair of calls of a run
CallHash(buf, first, undef) ==
    /\ ret.op = "New"
    /\ ret' = Ret("Hash", 0, <<buf, first, undef>>,
                  <<HashBytes(buf, undef), HashReader(FuzzyReader(buf, first), undef)>>,
                  TRUE, [ok |-> TRUE, panic |-> FALSE], {})
    /\ UNCHANGED <<mem, H, added, current, writer, readers, statistics>>

NextHash ==
    \E buf \in Streams, first \in FirstReads, undef \in UndefinedBytes :
        CallHash(buf, first, undef)

SpecHash == InitIdle /\ [][NextHash]_vars

\* the longest stream fillBuckets is called on
MaxStream == 8

\* the streams of at least windowLength bytes
LongStreams == UNION {[1..n -> StreamBytes] : n \in windowLength..MaxStream}

\* fillBuckets(r) for a reader r over buf whose first Read delivers
\* windowLength bytes, the one call of a run
CallFillBuckets(buf) ==
    /\ ret.op = "New"
    /\ ret' = Ret("fillBuckets", 0, <<buf>>, <<fillBuckets(NewReader(buf))>>,
                  TRUE, [ok |-> TRUE, panic |-> FALSE], {})
    /\ UNCHANGED <<mem, H, added, current, writer, readers, statistics>>

NextFill == \E buf \in LongStreams : CallFillBuckets(buf)

SpecFill == InitIdle /\ [][NextFill]_vars

\* the digests String is called on: a checksum and a length code of
\* TlshBytes, ratios below 16 with qRatio packed of them, and a code
TlshBytes == {0, 1, 18, 171, 240, 255}

Ratios == {0, 1, 10, 15}

Codes ==
    { [k \in 1..codeSize |-> 0],
      [k \in 1..codeSize |-> 255],
      [k \in 1..codeSize |-> (k * 37) % 256] }

Digests ==
    { Tlsh(checksum, l, q1Ratio, q2Ratio, q1Ratio * 16 + q2Ratio, code) :
        checksum \in TlshBytes, l \in TlshBytes,
        q1Ratio \in Ratios, q2Ratio \in Ratios, code \in Codes }

\* s := t.String(); ParseStringToTlsh(s), the one pair of calls of a run
CallString(t) ==
    /\ ret.op = "New"
    /\ ret' = Ret("String", 0, <<t>>, <<String(t), ParseStringToTlsh(String(t))>>,
                  TRUE, [ok |-> TRUE, panic |-> FALSE], {})
    /\ UNCHANGED <<mem, H, added, current, writer, readers, statistics>>

NextString == \E t \in Digests : CallString(t)

SpecString == InitIdle /\ [][NextString]_vars

\* the strings ParseStringToTlsh is called on: up to MaxParseLen of the
\* characters '0', 'f' and 'g', and the strings of the digests
MaxParseLen == 6

ParseChars == {48, 102, 103}

ParseStrings ==
    UNION {[1..n -> ParseChars] : n \in 0..MaxParseLen} \cup {String(t) : t \in Digests}

\* ParseStringToTlsh(s), the one call of a run
CallParseStringToTlsh(s) ==
    /\ ret.op = "New"
    /\ ret' = Ret("ParseStringToTlsh", 0, <<s>>, <<ParseStringToTlsh(s)>>,
                  TRUE, [ok |-> TRUE, panic |-> ParseStringToTlsh(s).panic], {})
    /\ UNCHANGED <<mem, H, added, current, writer, readers, statistics>>

NextParse == \E s \in ParseStrings : CallParseStringToTlsh(s)

SpecParse == InitIdle /\ [][NextParse]_vars

\* the bucket arrays quartilePoints is called with: bucket i holds
\* (mult * i + offset) mod modulus, a bucket from effBuckets on the double
BucketMults == {0, 1, 3, 5, 11, 37, 127, 200}
BucketMods == {2, 3, 7, 16, 64, 128, 251, 997, 1000}
BucketOffsets == {0, 1, 64}

BucketsOf(mult, offset, modulus) ==
    [i \in 0..(numBuckets - 1) |->
        IF i < effBuckets THEN (mult * i + offset) % modulus
        ELSE 2 * ((mult * i + offset) % modulus)]

\* q1, q2, q3 := quartilePoints(buckets), the one call of a run
CallQuartilePoints(buckets) ==
    /\ ret.op = "New"
    /\ ret' = Ret("quartilePoints", 0, <<buckets>>, <<quartilePoints(buckets)>>,
                  TRUE, [ok |-> TRUE, panic |-> FALSE], {})
    /\ UNCHANGED <<mem, H, added, current, writer, readers, statistics>>

NextQuartiles ==
    \E mult \in BucketMults, offset \in BucketOffsets, modulus \in BucketMods :
        CallQuartilePoints(BucketsOf(mult, offset, modulus))

SpecQuartiles == InitIdle /\ [][NextQuartiles]_vars

\* the quartiles bucketsBinaryRepresentation is called with
QuartileValues == {0, 1, 5, 64}

\* the counts the buckets from effBuckets on are replaced with
UpperCounts == {0, 1000}

\* buckets with the count v in every bucket from effBuckets on
WithUpperBuckets(buckets, v) ==
    [i \in 0..(numBuckets - 1) |-> IF i < effBuckets THEN buckets[i] ELSE v]

\* bucketsBinaryRepresentation(buckets, q1, q2, q3) on buckets and on the
\* same buckets with other counts from effBuckets on, the calls of a run
CallBucketsBinaryRepresentation(buckets, q1, q2, q3, v) ==
    /\ ret.op = "New"
    /\ ret' = Ret("bucketsBinaryRepresentation", 0, <<buckets, q1, q2, q3, v>>,
                  <<bucketsBinaryRepresentation(buckets, q1, q2, q3),
                    bucketsBinaryRepresentation(WithUpperBuckets(buckets, v), q1, q2, q3)>>,
                  TRUE, [ok |-> TRUE, panic |-> FALSE], {})
    /\ UNCHANGED <<mem, H, added, current, writer, readers, statistics>>

NextCode ==
    \E mult \in BucketMults, modulus \in BucketMods, v \in UpperCounts,
       q1 \in QuartileValues, q2 \in QuartileValues, q3 \in QuartileValues :
        /\ q1 <= q2 /\ q2 <= q3
        /\ CallBucketsBinaryRepresentation(BucketsOf(mult, 0, modulus), q1, q2, q3, v)

SpecCode == InitIdle /\ [][NextCode]_vars

\* d := h.Dup(): instance 2 becomes a duplicate of instance 1
CallDup ==
    /\ ~ret.panic
    /\ \E d \in Dup(H[1], mem) : H' = <<H[1], d>>
    /\ ret' = Ret("Dup", 1, <<>>, <<>>, TRUE, [ok |-> TRUE, panic |-> FALSE], {})
    /\ added' = <<added[1], added[1]>>
    /\ UNCHANGED <<mem, current, writer, readers, statistics>>

\* the longest fingerprint array of an instance that is duplicated
MaxDupCount == 1

\* the vector objects given to an instance and its duplicate
DupObj == {1, 2}

\* an instance and its duplicate, each changed by Add, Remove and RemoveAll
\* with the caller's vector objects
NextDup ==
    \/ \E i \in DOMAIN H : \E hash \in DupObj :
           Len(H[i].hashes) < MaxDupCount /\ CallAdd(i, hash)
    \/ \E i \in DOMAIN H : \E hash \in DupObj : CallRemove(i, hash)
    \/ \E i \in DOMAIN H : CallRemoveAll(i)
    \/ CallDup

SpecDup == Init /\ [][NextDup]_vars

----------------------------------------------------------------------------
(* The documented pattern: one writer duplicates the current instance, adds *)
(* a batch to the duplicate and switches the shared handle to it; readers   *)
(* take the handle once per query.  Every step of a thread is one action,   *)
(* so a query runs while the writer is in the middle of AddBulk.            *)

\* the most instances the writer makes, the first one included
MaxInstances == 3

\* the batches the writer adds, one after the other and then again
Batches == << <<1, 2>>, <<2, 3>> >>

\* the batch of the duplicate the writer makes next
NextBatch == Batches[((Len(H) - 1) % Len(Batches)) + 1]

\* the fingerprints the readers ask about
ReaderQueries == {Vectors[2], <<U64(0, 0, 0, 1)>>}

\* what one query answers on an instance
Answer(h, m, q) == [contains |-> Contains(h, m, q), sibling |-> ShortestDistance(h, m, q)]

\* a writer that takes the current instance itself instead of a duplicate
WriterNoDup(batch) ==
    /\ writer.pc = "idle"
    /\ Len(H) < MaxInstances
    /\ writer' = [pc |-> "adding", newH |-> current, batch |-> batch]
    /\ UNCHANGED <<mem, H, ret, added, current, readers, statistics>>

\* newH := currentH.Dup()
WriterDup(batch) ==
    /\ writer.pc = "idle"
    /\ Len(H) < MaxInstances
    /\ \E d \in Dup(H[current], mem) : H' = Append(H, d)
    /\ added' = Append(added, added[current])
    /\ writer' = [pc |-> "adding", newH |-> Len(H) + 1, batch |-> batch]
    /\ UNCHANGED <<mem, ret, current, readers, statistics>>

\* newH.AddBulk(allMyNewHashes), one round of its loop.  When Add aborts,
\* after it has appended the fingerprint, the writer never reaches the
\* switch and the program ends with it.
WriterAdd ==
    /\ writer.pc = "adding"
    /\ writer.batch # <<>>
    /\ \E r \in Add(H[writer.newH], mem, Head(writer.batch)) :
         /\ H' = [H EXCEPT ![writer.newH] = r.h]
         /\ mem' = r.mem
         /\ writer' = IF r.panic THEN [writer EXCEPT !.pc = "panicked"]
                      ELSE [writer EXCEPT !.batch = Tail(writer.batch)]
    /\ added' = [added EXCEPT ![writer.newH] = @ \cup {mem[Head(writer.batch)]}]
    /\ UNCHANGED <<ret, current, readers, statistics>>

\* currentH = newH: one atomic store of the handle
WriterSwitch ==
    /\ writer.pc = "adding"
    /\ writer.batch = <<>>
    /\ current' = writer.newH
    /\ writer' = [pc |-> "idle", newH |-> 0, batch |-> <<>>]
    /\ UNCHANGED <<mem, H, ret, added, readers, statistics>>

\* the program runs as long as no thread has aborted
Running == writer.pc # "panicked"

\* the readers that are inside ShortestDistance
InFlight == {r \in Reader : readers[r].pc \notin {"idle", "query", "done"}}

\* a reader takes the handle for its query, h := currentH; snap is what the
\* query answers on the instance the handle names at this moment.  Every
\* reader thread runs one query.
ReaderTakeHandle(r, q) ==
    /\ Running
    /\ readers[r].pc = "idle"
    /\ readers' = [readers EXCEPT ![r] =
                      [IdleReader EXCEPT !.pc = "query", !.ref = current, !.q = q,
                                         !.snap = Answer(H[current], mem, q)]]
    /\ UNCHANGED <<mem, H, ret, added, current, writer, statistics>>

\* h.ShortestDistance(q) of a reader thread, statement by statement: the
\* counters are plain uint64 fields of one global, and x++ of a thread is
\* a load of x into a register, reg, followed by a store of the register
\* plus one, with the steps of the other threads in between; a stored
\* register is dead and is cleared

\* statistics.Distance++, the load
ReaderLoadDistance(r) ==
    /\ Running
    /\ readers[r].pc = "query"
    /\ readers' = [readers EXCEPT ![r].pc = "storeDistance",
                                  ![r].reg = statistics.Distance]
    /\ statistics' = [statistics EXCEPT !.started = @ + 1]
    /\ UNCHANGED <<mem, H, ret, added, current, writer>>

\* statistics.Distance++, the store
ReaderStoreDistance(r) ==
    /\ Running
    /\ readers[r].pc = "storeDistance"
    /\ statistics' = [statistics EXCEPT !.Distance = readers[r].reg + 1]
    /\ readers' = [readers EXCEPT ![r].pc = "loadPending", ![r].reg = 0]
    /\ UNCHANGED <<mem, H, ret, added, current, writer>>

\* statistics.PendingDistance++, the load
ReaderLoadPending(r) ==
    /\ Running
    /\ readers[r].pc = "loadPending"
    /\ readers' = [readers EXCEPT ![r].pc = "storePending",
                                  ![r].reg = statistics.PendingDistance]
    /\ UNCHANGED <<mem, H, ret, added, current, writer, statistics>>

\* statistics.PendingDistance++, the store
ReaderStorePending(r) ==
    /\ Running
    /\ readers[r].pc = "storePending"
    /\ statistics' = [statistics EXCEPT !.PendingDistance = readers[r].reg + 1]
    /\ readers' = [readers EXCEPT ![r].pc = "search", ![r].reg = 0]
    /\ UNCHANGED <<mem, H, ret, added, current, writer>>

\* h.Contains(hash) and h.Distance(hash) up to the return statement, on the
\* instance the reader holds; pending is the number of fingerprints the
\* writer has still to add at that moment, -1 when the writer is between
\* two batches
ReaderSearch(r) ==
    /\ Running
    /\ readers[r].pc = "search"
    /\ readers' = [readers EXCEPT ![r].pc = "loadDeferred",
                                  ![r].got = Answer(H[readers[r].ref], mem, readers[r].q),
                                  ![r].pending = IF writer.pc = "adding"
                                                 THEN Len(writer.batch) ELSE 0 - 1]
    /\ UNCHANGED <<mem, H, ret, added, current, writer, statistics>>

\* the deferred statistics.PendingDistance--, the load
ReaderLoadDeferred(r) ==
    /\ Running
    /\ readers[r].pc = "loadDeferred"
    /\ readers' = [readers EXCEPT ![r].pc = "storeDeferred",
                                  ![r].reg = statistics.PendingDistance]
    /\ UNCHANGED <<mem, H, ret, added, current, writer, statistics>>

\* the deferred statistics.PendingDistance--, the store; the call returns
\* and the thread ends, with its handle and its answer
ReaderStoreDeferred(r) ==
    /\ Running
    /\ readers[r].pc = "storeDeferred"
    /\ statistics' = [statistics EXCEPT !.PendingDistance = readers[r].reg - 1]
    /\ readers' = [readers EXCEPT ![r] = [IdleReader EXCEPT !.pc = "done"]]
    /\ UNCHANGED <<mem, H, ret, added, current, writer>>

NextRCU ==
    \/ WriterDup(NextBatch)
    \/ WriterAdd
    \/ WriterSwitch
    \/ \E r \in Reader : \E q \in ReaderQueries : ReaderTakeHandle(r, q)
    \/ \E r \in Reader : ReaderLoadDistance(r)
    \/ \E r \in Reader : ReaderStoreDistance(r)
    \/ \E r \in Reader : ReaderLoadPending(r)
    \/ \E r \in Reader : ReaderStorePending(r)
    \/ \E r \in Reader : ReaderSearch(r)
    \/ \E r \in Reader : ReaderLoadDeferred(r)
    \/ \E r \in Reader : ReaderStoreDeferred(r)

SpecRCU == Init /\ [][NextRCU]_vars

\* the reader threads alone, on an instance no thread changes
NextStatistics ==
    \/ \E r \in Reader : \E q \in ReaderQueries : ReaderTakeHandle(r, q)
    \/ \E r \in Reader : ReaderLoadDistance(r)
    \/ \E r \in Reader : ReaderStoreDistance(r)
    \/ \E r \in Reader : ReaderLoadPending(r)
    \/ \E r \in Reader : ReaderStorePending(r)
    \/ \E r \in Reader : ReaderSearch(r)
    \/ \E r \in Reader : ReaderLoadDeferred(r)
    \/ \E r \in Reader : ReaderStoreDeferred(r)

SpecStatistics == Init /\ [][NextStatistics]_vars

----------------------------------------------------------------------------
(* Properties of one instance *)

\* every fingerprint a call or a query can name
Fingerprints == Queries \cup {mem[o] : o \in Obj}

\* Contains(v) answers true
IsContained(h, v) == TRUE \in Contains(h, mem, v)

Min(set) == CHOOSE x \in set : \A y \in set : x <= y

\* the numbers a list holds
Range(list) == {list[k] : k \in 1..Len(list)}

\* every index found in some candidate list of the tables
Indexed(multiIndexTables) ==
    UNION {UNION {Range(multiIndexTables[b][key]) : key \in DOMAIN multiIndexTables[b]} :
              b \in DOMAIN multiIndexTables}

\* bit k (bit 0 the least significant) of the integer whose big-endian limbs are fh
WideBit(fh, k) == fh[Len(fh) - (k \div _W)][_W - (k % _W)]

\* block b of fh: the bits [b * blockSize, (b + 1) * blockSize) of that
\* integer, as the 16-bit key of the tables
RECURSIVE BlockBits(_, _, _, _)
BlockBits(fh, from, n, j) ==
    IF j >= n \/ j >= 16 THEN 0
    ELSE WideBit(fh, from + j) + 2 * BlockBits(fh, from, n, j + 1)

BlockValue(fh, b, blockSize) == BlockBits(fh, b * blockSize, blockSize, 0)

\* C1: with the multi-index strategy, for every query q and every contained v
\* within max_distance of q, ShortestDistance(q) returns a distance of at
\* most hamming(q, v).
C1_PrecisionWithinRadius ==
    H[1].config.UseMultiindex =>
        \A q \in Queries : \A v \in Fingerprints :
            (IsContained(H[1], v) /\ distanceUint64s(q, v) <= H[1].config.MaxDistance)
                => \A sibling \in ShortestDistance(H[1], mem, q) :
                       sibling.distance <= distanceUint64s(q, v)

\* C2: with the brute-force strategy and at least one fingerprint contained,
\* ShortestDistance(q) of a q that is not contained returns the least
\* hamming(q, v) over the contained v, the removed ones left out.
C2_BruteForceOptimality ==
    LET contained == {v \in Fingerprints : IsContained(H[1], v)}
    IN  (~H[1].config.UseMultiindex /\ contained # {}) =>
            \A q \in Queries \ contained :
                \A sibling \in ShortestDistance(H[1], mem, q) :
                    sibling.distance = Min({distanceUint64s(q, v) : v \in contained})

C4_RemoveDeletesReferences ==
    (ret.op = "Remove" /\ ret.ok /\ H[1].config.UseMultiindex) =>
        ret.removed \cap Indexed(H[1].multiIndexTables) = {}

\* C5: for every contained v the slot of the fingerprint array at the index
\* the identity map gives for v holds v.
C5_LookupPointsAtValue ==
    \A e \in H[1].hashesLookup :
        /\ e.idx < Len(H[1].hashes)
        /\ IsEqual(mem[H[1].hashes[e.idx + 1]], mem[e.ptr])

C10_BulkPerElement ==
    ret.op \in {"AddBulk", "RemoveBulk"} =>
        /\ ret.ok = ret.expect
        /\ \A v \in Fingerprints : Contains(H[1], mem, v) = {v \in added[1]}
        /\ ret.op = "RemoveBulk" =>
               \A k \in 1..Len(ret.vals) : ~IsContained(H[1], ret.vals[k])

----------------------------------------------------------------------------
(* Properties of an instance and its duplicate *)

\* what the reads of an instance answer: Count, and for every query the
\* possible answers of Contains and of ShortestDistance
Observed(h, m) ==
    [count |-> Count(h),
     contains |-> [q \in Queries |-> Contains(h, m, q)],
     sibling |-> [q \in Queries |-> ShortestDistance(h, m, q)]]

\* C7: once d is a duplicate of h, an Add, Remove or RemoveAll on d leaves
\* what Contains, Count and ShortestDistance answer on h unchanged, and one on
\* h leaves the answers of d unchanged, also when the calls are given the
\* vector objects that were given to Add before.
C7_DupIndependence ==
    [][(Len(H) = 2 /\ ret'.op \in {"Add", "Remove", "RemoveAll"}) =>
          /\ ret'.inst = 2 => Observed(H'[1], mem') = Observed(H[1], mem)
          /\ ret'.inst = 1 => Observed(H'[2], mem') = Observed(H[2], mem)]_vars

\* C8: right after d := h.Dup(), d has the configuration and the strategy of
\* h, and Contains, Count and ShortestDistance answer on d what they answer
\* on h, for every fingerprint.
C8_DupEquivalence ==
    ret.op = "Dup" =>
        /\ Config(H[2]) = Config(H[1])
        /\ H[2].distance = H[1].distance
        /\ Count(H[2]) = Count(H[1])
        /\ \A q \in Queries :
              /\ \A x \in Contains(H[2], mem, q) : \A y \in Contains(H[1], mem, q) : x = y
              /\ \A x \in ShortestDistance(H[2], mem, q) :
                     \A y \in ShortestDistance(H[1], mem, q) : x = y

\* C29: after d := h.Dup() the fingerprint arrays of h and d share no limb
\* storage, so a Remove on d, which shifts a vector reachable through d in
\* place, leaves the limbs of every fingerprint stored in h as they were.
C29_DupCopiesLimbs ==
    [][/\ ret'.op = "Dup" =>
            \A i \in 1..Len(H'[1].hashes) : \A j \in 1..Len(H'[2].hashes) :
                H'[1].hashes[i] # H'[2].hashes[j]
       /\ (Len(H) = 2 /\ ret'.op = "Remove" /\ ret'.inst = 2) =>
            \A k \in 1..Len(H[1].hashes) : mem'[H[1].hashes[k]] = mem[H[1].hashes[k]]]_vars

----------------------------------------------------------------------------
(* Properties of the documented pattern *)

\* the instances the shared handle names or has named: all but the one the
\* writer is filling
Published == {i \in DOMAIN H : ~(writer.pc = "adding" /\ i = writer.newH)}

\* a published instance holds all the batches added before its switch and
\* nothing else: the fingerprints of whole batches
WholeBatches(i) ==
    \E bs \in SUBSET Range(Batches) :
        {e.ptr : e \in H[i].hashesLookup} = UNION {Range(batch) : batch \in bs}

\* the readers that hold an instance: from taking the handle to the return
Holding == {r \in Reader : readers[r].pc \notin {"idle", "done"}}

\* the readers whose query has computed the answer it returns
HasAnswer == {r \in Reader : readers[r].pc \in {"loadDeferred", "storeDeferred"}}

\* every reader that holds an instance holds a published one, made of whole
\* batches, and a query that has its answer answers what it answers on the
\* instance that was current when the reader took the handle
ReadersIsolated ==
    /\ \A r \in HasAnswer : readers[r].got = readers[r].snap
    /\ \A r \in Holding :
           /\ readers[r].ref \in Published
           /\ WholeBatches(readers[r].ref)

\* C9: under the documented pattern every query answers what it answers on
\* the instance that was current when the reader took the handle, a fully
\* published instance: after every step no reader has seen a part of a batch,
\* and no step changes a published instance, or the vectors it refers to in
\* a way that changes what the queries answer on it.
C9_SnapshotIsolation ==
    [][/\ ReadersIsolated'
       /\ \A i \in Published :
              /\ H'[i] = H[i]
              /\ \/ mem' = mem
                 \/ \A q \in ReaderQueries :
                        Answer(H'[i], mem', q) = Answer(H[i], mem, q)]_vars

\* C9 witness: a query answered TRUE from Contains on an instance the writer
\* made, while the writer had added one of the two fingerprints of the next
\* batch to the next duplicate.
C9_Witness ==
    \E r \in HasAnswer :
        /\ readers[r].pending = 1
        /\ readers[r].ref > 1
        /\ readers[r].got.contains = {TRUE}

----------------------------------------------------------------------------
(* Properties of RemoveAll, of exact matches and of failures at run time *)

\* C11: right after RemoveAll, for either strategy, Contains answers false
\* for every fingerprint and ShortestDistance answers, for every query, the
\* distance hash_size with an empty sibling.
C11_RemoveAllClears ==
    ret.op = "RemoveAll" =>
        \A q \in Fingerprints :
            /\ Contains(H[1], mem, q) = {FALSE}
            /\ ShortestDistance(H[1], mem, q) = {Sibling(<<>>, H[1].config.HashSize)}

\* C12: for either strategy, ShortestDistance of a contained fingerprint v
\* answers the distance 0 and the value v.
C12_ExactMatch ==
    \A v \in Fingerprints :
        IsContained(H[1], v) => ShortestDistance(H[1], mem, v) = {Sibling(v, 0)}

\* C12 witness: a fingerprint is contained while the slot of the array its
\* map entry names holds another fingerprint.
C12_Witness ==
    \E e \in H[1].hashesLookup :
        /\ e.idx < Len(H[1].hashes)
        /\ ~IsEqual(mem[H[1].hashes[e.idx + 1]], mem[e.ptr])
        /\ IsContained(H[1], mem[e.ptr])

\* C13: for every accepted configuration no call of Add, RemoveBulk or
\* ShortestDistance aborts at run time: no division by zero, no index out of
\* range.
C13_NoRuntimeFailure ==
    /\ ~ret.panic
    /\ H[1].config.UseMultiindex =>
           \A q \in Queries : ~multiindexScan(H[1], mem, q).panic

----------------------------------------------------------------------------
(* Properties of New *)

\* the configuration the last call of New was given
Given == ret.args[1]

CalledNew == ret.op = "New" /\ ret.args # <<>>

\* C14: New answers an error for every configuration whose block size,
\* hash_size / (max_distance + 1), is greater than 16.
C14_RejectsWideBlocks ==
    (/\ CalledNew
     /\ Given.MaxDistance >= 0
     /\ Given.HashSize \div (Given.MaxDistance + 1) > 16) => ~ret.ok

\* C15: for hash_size >= 0 and max_distance >= 0, New answers an error iff
\* hash_size mod 64 # 0 or max_distance + 1 > 255; on success blocks is
\* max_distance + 1, block_size is floor(hash_size / blocks), last_block_size
\* is hash_size - (blocks - 1) * block_size, and the index is empty.
C15_NewErrorIff ==
    (CalledNew /\ Given.HashSize >= 0 /\ Given.MaxDistance >= 0) =>
        LET blocks == Given.MaxDistance + 1
            blockSize == Given.HashSize \div blocks
        IN  /\ ~ret.panic
            /\ ~ret.ok <=> (Given.HashSize % 64 # 0 \/ blocks > 255)
            /\ ret.ok =>
                  /\ H[1].config = Given
                  /\ H[1].blocks = blocks
                  /\ H[1].blockSize = blockSize
                  /\ H[1].lastBlockSize = Given.HashSize - (blocks - 1) * blockSize
                  /\ Count(H[1]) = 0
                  /\ H[1].hashesLookup = {}
                  /\ Indexed(H[1].multiIndexTables) = {}

\* C15 witness: New succeeded with a last block wider than the others.
C15_Witness ==
    /\ CalledNew /\ ret.ok
    /\ H[1].lastBlockSize > H[1].blockSize
    /\ H[1].blockSize > 0

----------------------------------------------------------------------------
(* Properties of Count and of the insertion indexes *)

\* C16: Count() is the number of distinct fingerprints for which Contains
\* answers true.
C16_CountIsContained ==
    Count(H[1]) = Cardinality({v \in Fingerprints : IsContained(H[1], v)})

\* the indexes of the map are below Count() and no two entries share one
IndexesDistinct ==
    \A e1 \in H[1].hashesLookup :
        /\ e1.idx < Count(H[1])
        /\ \A e2 \in H[1].hashesLookup : e1.idx = e2.idx => e1 = e2

\* C17: a successful Add files the fingerprint under the index Count() had
\* before the call and raises Count() by one; RemoveBulk, RemoveAll and a
\* failed Add leave Count() as it is; so Count() counts the successful Adds,
\* every new index is above all the earlier ones, and no index is given to
\* two fingerprints.
C17_IndexesMonotonic ==
    [][LET new == H'[1].hashesLookup \ H[1].hashesLookup
           before == Len(H[1].hashes)
           after == Len(H'[1].hashes)
       IN  /\ ret'.op \in {"Remove", "RemoveBulk", "RemoveAll"} =>
                  after = before /\ new = {}
           /\ ret'.op = "Add" =>
                  IF ret'.ok
                  THEN /\ after = before + 1
                       /\ \E e \in new : new = {e} /\ e.idx = before /\ e.ptr = ret'.args[1]
                  ELSE after = before /\ new = {}
           /\ ret'.op = "AddBulk" =>
                  /\ {e.idx : e \in new} = before..(after - 1)
                  /\ Cardinality(new) = after - before
           /\ IndexesDistinct']_vars

\* C17 witness: an Add succeeded on an instance from which a fingerprint had
\* been removed, and the new index is 2.
C17_Witness ==
    /\ ret.op = "Add" /\ ret.ok
    /\ Cardinality(H[1].hashesLookup) < Len(H[1].hashes)
    /\ \E e \in H[1].hashesLookup : e.ptr = ret.args[1] /\ e.idx = 2

----------------------------------------------------------------------------
(* Properties of the hex strings *)

CalledHex == ret.op = "HashStringToFuzzyHash"

\* strings.ToLower on the bytes of s
ToLower(s) == [i \in 1..Len(s) |-> IF s[i] >= 65 /\ s[i] <= 90 THEN s[i] + 32 ELSE s[i]]

IsHexByte(c) == (c >= 48 /\ c <= 57) \/ (c >= 65 /\ c <= 70) \/ (c >= 97 /\ c <= 102)

\* the value of a hex digit character
DigitOf(c) == IF c <= 57 THEN c - 48 ELSE IF c <= 70 THEN c - 55 ELSE c - 87

\* C18 as stated: whenever HashStringToFuzzyHash(s) succeeds, ToString of
\* its result is lowercase(s).
C18_HexRoundTrip ==
    (CalledHex /\ ret.ok) => FuzzyHashToString(ret.vals[1]) = ToLower(ret.args[1])

\* C18 amended: whenever HashStringToFuzzyHash(s) succeeds, ToString of its
\* result is lowercase of the longest prefix of s whose length is a multiple
\* of 16; it is lowercase(s) when the length of s is a multiple of 16.
C18_HexRoundTripWholeLimbs ==
    (CalledHex /\ ret.ok) =>
        LET s == ret.args[1]
        IN  FuzzyHashToString(ret.vals[1]) = ToLower(SubSeq(s, 1, 16 * (Len(s) \div 16)))

\* C18 witness: a string of two limbs with an uppercase digit was parsed.
C18_Witness ==
    /\ CalledHex /\ ret.ok
    /\ Len(ret.args[1]) = 32
    /\ ret.args[1][1] = 70
    /\ FuzzyHashToString(ret.vals[1]) = ToLower(ret.args[1])

\* C19: HashStringToFuzzyHash answers an error iff the length of s is odd or
\* s holds a byte outside [0-9A-Fa-f], for every byte value and without
\* failing at run time; otherwise the result has floor(|s| / 16) limbs, the
\* most significant first, each with the value of its 16 digits.
C19_HexErrorIff ==
    CalledHex =>
        LET s == ret.args[1]
            fh == ret.vals[1]
        IN  /\ ~ret.panic
            /\ ~ret.ok <=> (Len(s) % 2 # 0 \/ \E i \in 1..Len(s) : ~IsHexByte(s[i]))
            /\ ret.ok =>
                  /\ Len(fh) = Len(s) \div 16
                  /\ \A l \in 1..Len(fh) : \A j \in 1..16 :
                         BitsValue(fh[l], _W - 4 * j, _W - 4 * j + 3)
                             = DigitOf(s[16 * (l - 1) + j])

\* C19 witness: a string of 34 characters was parsed into two limbs.
C19_Witness ==
    /\ CalledHex /\ ret.ok
    /\ Len(ret.args[1]) = 34
    /\ Len(ret.vals[1]) = 2

----------------------------------------------------------------------------
(* Properties of rsh *)

CalledRsh == ret.op = "rsh"

\* C20: for every vector v of L >= 1 limbs and every s in [1, 63], v after
\* rsh(v, s) is floor(V / 2^s), V the 64*L-bit integer whose big-endian
\* limbs are v: bit k of the result is bit k + s of V, and 0 where k + s is
\* beyond the top; rsh(v, 0) leaves v unchanged.
C20_RshCorrect ==
    CalledRsh =>
        LET v == ret.args[1]
            s == ret.args[2]
            out == ret.vals[1]
        IN  /\ Len(out) = Len(v)
            /\ s = 0 => out = v
            /\ \A k \in 0..(_W * Len(v) - 1) :
                   WideBit(out, k) = IF k + s < _W * Len(v) THEN WideBit(v, k + s) ELSE 0

\* C20 witness: a vector of two limbs was shifted by s in [1, 63] and bits
\* of limb 0 moved into limb 1.
C20_Witness ==
    /\ CalledRsh
    /\ Len(ret.args[1]) = 2
    /\ ret.args[2] \in 1..(_W - 1)
    /\ ret.vals[1][2] # ShiftRight(ret.args[1][2], ret.args[2])
    /\ ret.vals[1] # ret.args[1]

----------------------------------------------------------------------------
(* Properties of distanceUint64s *)

CalledDistance == ret.op = "distanceUint64s"

\* the bit positions at which a and b differ
Differing(a, b) == {k \in 0..(_W * Len(a) - 1) : WideBit(a, k) # WideBit(b, k)}

\* C21: for all vectors a, b of equal length L, distanceUint64s(a, b) is the
\* number of bit positions at which a and b differ; hence hamming(a, a) = 0,
\* hamming(a, b) = hamming(b, a) and hamming(a, b) <= 64 * L.
C21_DistanceCountsBits ==
    CalledDistance =>
        LET a == ret.args[1]
            b == ret.args[2]
            d == ret.vals[1]
        IN  /\ d = Cardinality(Differing(a, b))
            /\ distanceUint64s(a, a) = 0
            /\ distanceUint64s(b, a) = d
            /\ d <= _W * Len(a)

\* C21 witness: two vectors of two limbs that differ in both limbs.
C21_Witness ==
    /\ CalledDistance
    /\ Len(ret.args[1]) = 2
    /\ ret.args[1][1] # ret.args[2][1]
    /\ ret.args[1][2] # ret.args[2][2]
    /\ ret.vals[1] > _W

----------------------------------------------------------------------------
(* Properties of the calls that only ask *)

\* the vector objects an instance refers to, from the fingerprint array and
\* from the keys of the identity map
Referred(h) == {h.hashes[k] : k \in 1..Len(h.hashes)} \cup {e.ptr : e \in h.hashesLookup}

\* C25: Contains, ShortestDistance, Count, Config and Dup leave the fingerprint
\* array, the identity map and the block-index tables of the instance, and
\* the limbs of every fingerprint they refer to, as they were before the call.
C25_ReadsArePure ==
    [][ret'.op \in ReadOps =>
          /\ H'[ret'.inst].hashes = H[ret'.inst].hashes
          /\ H'[ret'.inst].hashesLookup = H[ret'.inst].hashesLookup
          /\ H'[ret'.inst].multiIndexTables = H[ret'.inst].multiIndexTables
          /\ \A o \in Referred(H[ret'.inst]) : mem'[o] = mem[o]]_vars

\* a multi-index scan was made with a vector object that the fingerprint
\* array still refers to and the identity map no longer holds
C25_Witness ==
    /\ ret.op = "ShortestDistance"
    /\ H[1].config.UseMultiindex
    /\ ret.args[1] \in Referred(H[1])
    /\ H[1].hashesLookup = {}
    /\ ret.vals[1] # <<U64(0, 0, 0, 0)>>

\* C30: Add and ShortestDistance leave the limbs of the vector object they
\* are given as they were, with either strategy.
C30_CallerVectorKept ==
    [][ret'.op \in {"Add", "ShortestDistance"} =>
          mem'[ret'.args[1]] = mem[ret'.args[1]]]_vars

\* with the multi-index strategy an Add has put a fingerprint that is not 0
\* into the tables
C30_Witness ==
    /\ ret.op = "Add" /\ ret.ok
    /\ H[1].config.UseMultiindex
    /\ ret.vals[1] # <<U64(0, 0, 0, 0)>>
    /\ mem[ret.args[1]] = ret.vals[1]
    /\ H[1].multiIndexTables # <<>>

\* C33: an Add that answers false and a Remove that answers false leave the
\* fingerprint array, Count(), the identity map and every table of the
\* instance as they were.
C33_FailedCallChangesNothing ==
    [][(ret'.op \in {"Add", "Remove"} /\ ~ret'.ok /\ ~ret'.panic) =>
          /\ H'[1].hashes = H[1].hashes
          /\ Count(H'[1]) = Count(H[1])
          /\ H'[1].hashesLookup = H[1].hashesLookup
          /\ H'[1].multiIndexTables = H[1].multiIndexTables]_vars

\* an Add of a stored fingerprint has answered false, with the multi-index
\* strategy
C33_Witness ==
    /\ ret.op = "Add" /\ ~ret.ok /\ ~ret.panic
    /\ H[1].config.UseMultiindex
    /\ H[1].hashesLookup # {}
    /\ H[1].multiIndexTables # <<>>

\* C34: with the multi-index strategy, in every state reached by Add, Remove,
\* RemoveAll and Dup, every index in a candidate list is smaller than Count(),
\* and no multi-index scan leaves the fingerprint array or its array of
\* visited counters.
C34_IndexesBelowCount ==
    H[1].config.UseMultiindex =>
        /\ \A i \in Indexed(H[1].multiIndexTables) : i < Count(H[1])
        /\ \A q \in Queries : ~multiindexScan(H[1], mem, q).panic

\* a duplicate took the place of an instance whose lists hold the index 2,
\* after a Remove
C34_Witness ==
    /\ ret.op = "Dup"
    /\ H[1].config.UseMultiindex
    /\ 2 \in Indexed(H[1].multiIndexTables)
    /\ Cardinality(H[1].hashesLookup) < Count(H[1])

\* C31: RemoveBulk, and the remove it calls, leaves the limbs of every vector
\* object it is given as they were, with either strategy.
C31_RemoveKeepsCallerVectors ==
    [][ret'.op \in {"Remove", "RemoveBulk"} =>
          \A k \in 1..Len(ret'.args) : mem'[ret'.args[k]] = mem[ret'.args[k]]]_vars

----------------------------------------------------------------------------
(* Properties of an instance that is only added to *)

\* the list is strictly ascending
Ascending(list) == \A k \in 1..(Len(list) - 1) : list[k] < list[k + 1]

\* C26: with the multi-index strategy, after Add operations only, every
\* candidate list of every table is strictly ascending, and every index in the
\* list of table b under the key k is the insertion index of a stored
\* fingerprint whose block b has the value k.
C26_ListsHoldOwners ==
    H[1].config.UseMultiindex =>
        \A b \in DOMAIN H[1].multiIndexTables :
            \A key \in DOMAIN H[1].multiIndexTables[b] :
                /\ Ascending(H[1].multiIndexTables[b][key])
                /\ \A i \in Range(H[1].multiIndexTables[b][key]) :
                      /\ i < Len(H[1].hashes)
                      /\ BlockValue(mem[H[1].hashes[i + 1]], b, H[1].blockSize) = key

\* the fingerprints asked about after the Adds: the three of the caller, 0,
\* and fingerprints one or two bits away from them
NearQueries ==
    {NearVectors[o] : o \in Obj}
        \cup {<<U64(0, 0, 0, 0)>>, <<U64(0, 0, 0, 3)>>, <<U64(65535, 65535, 65535, 65534)>>}

\* the stored fingerprints, in the order of the array
Stored(h, m) == {m[h.hashes[k]] : k \in 1..Len(h.hashes)}

\* some stored fingerprint is within MaxDistance of q
WithinRadius(h, m, q) ==
    \E v \in Stored(h, m) : distanceUint64s(q, v) <= h.config.MaxDistance

\* C27: for an index built by Add only with the multi-index strategy, whenever
\* some stored fingerprint is within max_distance of q, ShortestDistance(q)
\* returns the Sibling, fingerprint and distance, that
\* shortestDistanceBruteForce(q) returns.
C27_SameSiblingAsBruteForce ==
    H[1].config.UseMultiindex =>
        \A q \in NearQueries :
            WithinRadius(H[1], mem, q) =>
                ShortestDistance(H[1], mem, q) = {shortestDistanceBruteForce(H[1], mem, q)}

\* C27 as it holds: under the same conditions ShortestDistance(q) returns the
\* distance that shortestDistanceBruteForce(q) returns; when that distance is
\* below hash_size it returns with it a stored fingerprint (or q itself, when
\* it is stored) at that distance from q, and when that distance is
\* hash_size, the nearest stored fingerprint differing from q in every bit,
\* it returns no fingerprint, as the brute-force scan does.
C27_SameDistanceAsBruteForce ==
    H[1].config.UseMultiindex =>
        \A q \in NearQueries :
            WithinRadius(H[1], mem, q) =>
                \A sibling \in ShortestDistance(H[1], mem, q) :
                    /\ sibling.distance = shortestDistanceBruteForce(H[1], mem, q).distance
                    /\ IF sibling.distance < H[1].config.HashSize
                       THEN /\ sibling.s \in Stored(H[1], mem)
                            /\ distanceUint64s(q, sibling.s) = sibling.distance
                       ELSE sibling.s = shortestDistanceBruteForce(H[1], mem, q).s

\* two stored fingerprints are equally near to a query that is not stored,
\* within the radius
C27_Witness ==
    /\ H[1].config.UseMultiindex
    /\ ret.op \in {"Add", "AddBulk"}
    /\ \E q \in NearQueries \ Stored(H[1], mem) :
          \E v, w \in Stored(H[1], mem) :
              /\ v # w
              /\ distanceUint64s(q, v) = distanceUint64s(q, w)
              /\ distanceUint64s(q, v) <= H[1].config.MaxDistance
              /\ distanceUint64s(q, v) = shortestDistanceBruteForce(H[1], mem, q).distance

\* C32: with the brute-force strategy, on an index that is not empty and was
\* built by Add only, ShortestDistance(q) returns for every q a stored
\* fingerprint together with its Hamming distance from q, also where the
\* nearest stored fingerprint differs from q in every bit.
C32_BruteForceReturnsStored ==
    (~H[1].config.UseMultiindex /\ Len(H[1].hashes) > 0) =>
        \A q \in NearQueries :
            \A sibling \in ShortestDistance(H[1], mem, q) :
                /\ sibling.s \in Stored(H[1], mem)
                /\ sibling.distance = distanceUint64s(q, sibling.s)

----------------------------------------------------------------------------
(* Properties of the loops over the blocks *)

CalledBlocks == ret.op = "blocks"

\* floor(V / 2^(b * blockSize)) mod 2^blockSize for the integer V of fh
BlockOf(fh, b, blockSize) ==
    LET bit[j \in 0..blockSize] ==
            IF j = blockSize THEN 0 ELSE WideBit(fh, b * blockSize + j) + 2 * bit[j + 1]
    IN  bit[0]

\* C28: for 1 <= block_size <= 16 and every fingerprint v, the value that
\* Add, remove and the multi-index query compute for block b in [0, blocks) is
\* floor(V / 2^(b * block_size)) mod 2^block_size, V the integer of v, also
\* where b * block_size >= 64.
C28_BlockExtraction ==
    CalledBlocks =>
        \A k \in 1..3 :
            /\ Len(ret.vals[k]) = ret.args[2]
            /\ \A b \in 0..(ret.args[2] - 1) :
                  BitsValue(ret.vals[k][b + 1], 0, _W - 1)
                      = BlockOf(ret.args[1], b, ret.args[3])

\* the loops ran over a fingerprint of two limbs whose blocks from bit 64 on
\* are not all 0
C28_Witness ==
    /\ CalledBlocks
    /\ Len(ret.args[1]) = 2
    /\ ret.args[3] = 14
    /\ \E b \in 0..(ret.args[2] - 1) :
          b * ret.args[3] >= _W /\ BitsValue(ret.vals[3][b + 1], 0, _W - 1) # 0

----------------------------------------------------------------------------
(* Properties of the digest *)

CalledQuartilePoints == ret.op = "quartilePoints"

\* the element at position k (from 0) of the ascending sort of the first
\* effBuckets buckets
OrderStatistic(buckets, k) ==
    CHOOSE v \in {buckets[i] : i \in 0..(effBuckets - 1)} :
        /\ Cardinality({i \in 0..(effBuckets - 1) : buckets[i] < v}) <= k
        /\ k < Cardinality({i \in 0..(effBuckets - 1) : buckets[i] <= v})

\* C35: for every content of the first 128 buckets quartilePoints ends and
\* returns as q1, q2, q3 the elements at the positions 31, 63 and 95 of the
\* ascending sort of those buckets; every partition it calls has
\* left <= right within [0, 127], and the caller's array is as it was.
C35_QuartilesAreOrderStatistics ==
    CalledQuartilePoints =>
        /\ ret.vals[1].done
        /\ ret.vals[1].q1 = OrderStatistic(ret.args[1], 31)
        /\ ret.vals[1].q2 = OrderStatistic(ret.args[1], 63)
        /\ ret.vals[1].q3 = OrderStatistic(ret.args[1], 95)
        /\ ret.vals[1].q1 <= ret.vals[1].q2 /\ ret.vals[1].q2 <= ret.vals[1].q3
        /\ ret.vals[1].inRange
        /\ ret.vals[1].buckets = ret.args[1]

\* quartilePoints was called on buckets that are not in order and has
\* returned three different quartiles
C35_Witness ==
    /\ CalledQuartilePoints
    /\ ret.vals[1].q1 < ret.vals[1].q2 /\ ret.vals[1].q2 < ret.vals[1].q3
    /\ \E i \in 0..(effBuckets - 2) : ret.args[1][i] > ret.args[1][i + 1]

CalledCode == ret.op = "bucketsBinaryRepresentation"

\* the label the digest gives a bucket count k
LabelOf(k, q1, q2, q3) ==
    IF k > q3 THEN 3 ELSE IF k > q2 THEN 2 ELSE IF k > q1 THEN 1 ELSE 0

\* C36: given q1 <= q2 <= q3, for every i in [0, 32) and j in [0, 4) the
\* bits 2j and 2j+1 of code[31 - i] hold the label of bucket 4i+j (3 if
\* the count is > q3, else 2 if > q2, else 1 if > q1, else 0), and the
\* buckets 128..255 do not influence the code.
C36_CodeLayout ==
    CalledCode =>
        /\ \A i \in 0..(codeSize - 1), j \in 0..3 :
              (ret.vals[1][codeSize - i] \div (4 ^ j)) % 4
                  = LabelOf(ret.args[1][4 * i + j], ret.args[2], ret.args[3], ret.args[4])
        /\ ret.vals[2] = ret.vals[1]

\* a code was made of buckets of all four labels, with quartiles that
\* differ, while the buckets from effBuckets on were given other counts
C36_Witness ==
    /\ CalledCode
    /\ ret.args[2] < ret.args[3] /\ ret.args[3] < ret.args[4]
    /\ \A lb \in 0..3 : \E i \in 0..(effBuckets - 1) :
          LabelOf(ret.args[1][i], ret.args[2], ret.args[3], ret.args[4]) = lb
    /\ \E k \in 1..codeSize : ret.vals[1][k] # ret.vals[1][codeSize + 1 - k]
    /\ \E i \in effBuckets..(numBuckets - 1) : ret.args[1][i] # ret.args[5]

\* the readers whose query has counted itself in PendingDistance and has
\* not yet taken itself out
Counted == {r \in Reader : readers[r].pc \in {"search", "loadDeferred", "storeDeferred"}}

\* C40: with any number of readers executing ShortestDistance at the same
\* time, the global PendingDistance counter equals the number of calls in
\* flight, and is 0 whenever no call is in flight; the Distance counter
\* equals the number of calls started.  A call is taken as in flight from
\* its increment of PendingDistance to its decrement, and as started once
\* it has stored Distance.
C40_PendingCountsCallsInFlight ==
    /\ statistics.PendingDistance = Cardinality(Counted)
    /\ InFlight = {} => statistics.PendingDistance = 0
    /\ statistics.Distance
         = statistics.started - Cardinality({r \in Reader : readers[r].pc = "storeDistance"})

CalledParse == ret.op = "ParseStringToTlsh"

\* C39: ParseStringToTlsh returns an error, and never aborts at run time,
\* for every string that does not decode to exactly 35 bytes (the empty
\* string and hex strings of fewer than 3 bytes too); it returns a digest
\* only for 70-character hex input.
C39_ParseRejectsOtherLengths ==
    CalledParse =>
        LET d == DecodeString(ret.args[1])
            parsed == ret.vals[1]
        IN  /\ ~parsed.panic
            /\ (d.err \/ Len(d.bytes) # 35) => parsed.err
            /\ ~parsed.err => (Len(ret.args[1]) = 70 /\ ~d.err)

CalledFillBuckets == ret.op = "fillBuckets"

\* the sum of the bucket counters lo .. hi
RECURSIVE SumOfBuckets(_, _, _)
SumOfBuckets(buckets, lo, hi) ==
    IF lo = hi THEN buckets[lo]
    ELSE SumOfBuckets(buckets, lo, (lo + hi) \div 2)
       + SumOfBuckets(buckets, (lo + hi) \div 2 + 1, hi)

\* C37: for a stream of N >= 5 bytes whose first read delivers 5 bytes,
\* fillBuckets processes exactly N - 4 window positions, reports a byte
\* count of N, and the 256 bucket counters add up to 6 * (N - 4); at every
\* window position chunk[0] is the byte read last and chunk[k] the byte
\* read k positions earlier.
C37_WindowPositions ==
    CalledFillBuckets =>
        LET N == Len(ret.args[1])
            f == ret.vals[1]
        IN  /\ ~f.err
            /\ Len(f.windows) = N - 4
            /\ f.fileSize = N
            /\ SumOfBuckets(f.buckets, 0, numBuckets - 1) = 6 * (N - 4)
            /\ \A p \in 1..(N - 4), k \in 0..(windowLength - 1) :
                  f.windows[p][k + 1] = ret.args[1][p + 4 - k]

\* fillBuckets has moved the window over a stream of more than
\* windowLength bytes that are not all the same
C37_Witness ==
    /\ CalledFillBuckets
    /\ Len(ret.args[1]) > windowLength + 1
    /\ Len(ret.vals[1].windows) > 2
    /\ \E i, j \in 1..Len(ret.args[1]) : ret.args[1][i] # ret.args[1][j]
    /\ ret.vals[1].windows[1] # ret.vals[1].windows[2]

CalledHash == ret.op = "Hash"

\* C22: HashBytes(buf) and HashReader(r) return an error and no digest
\* whenever the stream holds fewer than 5 bytes.
C22_ShortStreamFails ==
    (CalledHash /\ Len(ret.args[1]) < windowLength) =>
        /\ ret.vals[1].err /\ ret.vals[1].tlsh = ZeroTlsh
        /\ ret.vals[2].err /\ ret.vals[2].tlsh = ZeroTlsh

\* C23: HashBytes(buf) equals HashReader(r) for every reader r over buf,
\* also one whose Read returns fewer bytes than asked for although more
\* bytes follow.
C23_DigestDeterminism ==
    CalledHash => ret.vals[1] = ret.vals[2]

\* C38: for every stream the digest accepts the third quartile q3 of the
\* first 128 buckets is greater than 0, so that the quartile ratios are
\* defined and the digest is a function of the input bytes only.
C38_ThirdQuartilePositive ==
    (CalledHash /\ ~ret.vals[1].err) =>
        /\ quartilePoints(fillBuckets(NewReader(ret.args[1])).buckets).q3 > 0
        /\ \A undef \in UndefinedBytes : HashBytes(ret.args[1], undef) = ret.vals[1]

CalledString == ret.op = "String"

\* C24: for every Tlsh t with q1_ratio, q2_ratio < 16 and q_ratio =
\* (q1_ratio << 4) | q2_ratio, t.String() is 70 lowercase hex characters and
\* ParseStringToTlsh(t.String()) returns, without error, a Tlsh with the same
\* checksum, length code, q1_ratio, q2_ratio, q_ratio and code.
C24_ParseInvertsString ==
    CalledString =>
        LET t == ret.args[1]
            str == ret.vals[1]
            parsed == ret.vals[2]
        IN  /\ Len(str) = 70
            /\ \A i \in 1..Len(str) :
                   (str[i] >= 48 /\ str[i] <= 57) \/ (str[i] >= 97 /\ str[i] <= 102)
            /\ ~parsed.err /\ ~parsed.panic
            /\ parsed.tlsh.checksum = t.checksum
            /\ parsed.tlsh.lValue = t.lValue
            /\ parsed.tlsh.q1Ratio = t.q1Ratio
            /\ parsed.tlsh.q2Ratio = t.q2Ratio
            /\ parsed.tlsh.qRatio = t.qRatio
            /\ parsed.tlsh.Code = t.Code

\* C24 witness: a digest whose checksum and length code change under the
\* nibble swap, with two different ratios and a code that is not zero, was
\* written and parsed back.
C24_Witness ==
    /\ CalledString
    /\ swapByte(ret.args[1].checksum) # ret.args[1].checksum
    /\ swapByte(ret.args[1].lValue) # ret.args[1].lValue
    /\ ret.args[1].q1Ratio # ret.args[1].q2Ratio
    /\ ret.args[1].Code[1] # 0
    /\ ret.vals[2].tlsh = ret.args[1]

====
